---- MODULE Spec2Model ----
(***************************************************************************)
(* A model of the trie crate: leaf layers Vec<(K, i32)>, recursive layers  *)
(* TrieLayer<K, L>, their cursors, the k-way CursorMerger, and the two     *)
(* stack managers Arbor and ArborIndex.                                    *)
(*                                                                         *)
(* Conventions.  Indices (lower, upper, index, offset, ...) are the        *)
(* 0-based indices of the Rust code; At and Slice translate them to        *)
(* 1-based TLA+ sequences.  A layer is a record tagged with its depth d:   *)
(*   Vec<(K, i32)>      [d |-> 0, keys |-> <<<<k, w>>, ...>>]              *)
(*   TrieLayer<K, L>    [d |-> n, keys |-> <<<<k, end>>, ...>>, vals |-> L]*)
(* so the generic trait methods dispatch on d.  A tuple (Item) of a leaf   *)
(* is <<k, w>>; a tuple of a TrieLayer is <<k, item of L>>.                *)
(* Option<T> is a sequence: None is <<>>, Some(x) is <<x>>.                *)
(***************************************************************************)
EXTENDS Integers, Sequences, FiniteSets, TLC

VARIABLES
  T,         \* the layer type parameter of the Arbor (its depth)
  tries,     \* Arbor.tries
  parts,     \* history: per resident trie, the weight inserted per full key
  appends,   \* history: the number of batches appended so far
  pc,        \* "idle" | "scan" (a merger of cursor() borrows the arbor) |
             \* "fresh" (a merger of CursorMerger::new() is in use) |
             \* "probe" (a merger filled by get_into is in use) | "panic"
  started,   \* CursorMerger.started
  cursors,   \* CursorMerger.cursors
  result,    \* what the last CursorMerger::next returned (Option of a group)
  out,       \* history: the group keys returned so far by this traversal
  nones,     \* history: how often next has returned None in this traversal
  itries,    \* ArborIndex.tries
  index,     \* ArborIndex.index
  spill,     \* ArborIndex.spill
  probe,     \* the key last given to get_into (Option)
  evicted,   \* history: the spill entries the last append released
  layer,     \* the layer a stand-alone cursor was taken from, with its range
  cur,       \* a stand-alone cursor (SliceCursor or TrieCursor)
  item,      \* what the cursor's last operation returned, with history
  adv,       \* the last call of advance: its inputs and its outcome
  loaded,    \* history: the full keys given to the arbor or the index so far
  scanned,   \* the count of the last full scan (Option)
  pair,      \* two layers built by from_ordered (<<>> before they are built)
  merged,    \* the result of merging the two layers (Option)
  sources    \* the layers whose cursors are given to CursorMerger::from

vars == <<T, tries, parts, appends, pc, started, cursors, result, out, nones,
          itries, index, spill, probe, evicted, layer, cur, item, adv,
          loaded, scanned, pair, merged, sources>>

\* ------------------------------------------------------------- bounds
MaxKey == 2
MaxLeafKey == 3
MaxBatch == 2
MaxAppends == 3
MaxIndexAppends == 4
MaxScanAppends == 4
MaxPushes == 7
MaxStream == 3
MaxIrregular == 2
MaxNones == 2
MaxLen == 5
MaxSeekKey == 4
MaxCursorBatch == 3

\* The keys of a two-level arbor (at either level), and of a leaf arbor.
KeySet == 1 .. MaxKey
LeafKeySet == 1 .. MaxLeafKey
Weights == {-1, 1}

\* ------------------------------------------------------------ helpers
None == <<>>
Some(x) == <<x>>

At(s, i) == s[i + 1]
Slice(s, lo, hi) == SubSeq(s, lo + 1, hi)
Range(s) == {s[i] : i \in 1 .. Len(s)}
Last(s) == s[Len(s)]

\* ------------------------------------------------------------ advance
LessOrEqual(slice, key) == [x \in Range(slice) |-> x[1] <= key]

\* The closure |x| x.0 < key of seek and of the merge skips, as a function
\* on the elements of the slice it is applied to.
LessThan(slice, key) == [x \in Range(slice) |-> x[1] < key]

\* First loop of advance: exponentially growing steps.  reads collects the
\* indices at which the predicate is applied to the slice.
RECURSIVE advance_grow(_, _, _, _, _)
advance_grow(slice, function, idx, step, reads) ==
  IF idx + step < Len(slice)
  THEN IF function[At(slice, idx + step)]
       THEN advance_grow(slice, function, idx + step, step * 2,
                         reads \cup {idx + step})
       ELSE [index |-> idx, step |-> step, reads |-> reads \cup {idx + step}]
  ELSE [index |-> idx, step |-> step, reads |-> reads]

\* Second loop of advance: exponentially shrinking steps.
RECURSIVE advance_shrink(_, _, _, _, _)
advance_shrink(slice, function, idx, step, reads) ==
  IF step > 0
  THEN IF idx + step < Len(slice)
       THEN IF function[At(slice, idx + step)]
            THEN advance_shrink(slice, function, idx + step, step \div 2,
                                reads \cup {idx + step})
            ELSE advance_shrink(slice, function, idx, step \div 2,
                                reads \cup {idx + step})
       ELSE advance_shrink(slice, function, idx, step \div 2, reads)
  ELSE [index |-> idx, reads |-> reads]

advance_run_no_increment(slice, function) ==
  IF 0 < Len(slice) /\ function[At(slice, 0)]
  THEN LET g == advance_grow(slice, function, 0, 1, {0})
           s == advance_shrink(slice, function, g.index, g.step \div 2, g.reads)
       IN  [index |-> s.index, reads |-> s.reads]
  ELSE [index |-> 0, reads |-> {}]

\* advance with the indices it read.
advance_run(slice, function) ==
  IF 0 < Len(slice)
  THEN IF function[At(slice, 0)]
       THEN LET g == advance_grow(slice, function, 0, 1, {0})
                s == advance_shrink(slice, function, g.index, g.step \div 2,
                                    g.reads)
            IN  [index |-> s.index + 1, reads |-> s.reads]
       ELSE [index |-> 0, reads |-> {0}]
  ELSE [index |-> 0, reads |-> {}]

advance(slice, function) == advance_run(slice, function).index

\* ------------------------------------------------------- layer storage
\* A layer carries ok: FALSE once an assert! of the code constructing it has
\* failed (the program has panicked).
RECURSIVE new(_)
new(d) ==
  IF d = 0 THEN [d |-> 0, ok |-> TRUE, keys |-> <<>>]
  ELSE [d |-> d, ok |-> TRUE, keys |-> <<>>, vals |-> new(d - 1)]

\* The reserved capacity is not observable.
with_capacity(other1, other2) == new(other1.d)

keys(self) == Len(self.keys)

RECURSIVE tuples(_)
tuples(self) == IF self.d = 0 THEN Len(self.keys) ELSE tuples(self.vals)

RECURSIVE extend_trie(_, _, _, _)
RECURSIVE extend_merge(_, _, _, _, _, _, _)
RECURSIVE extend_tuple(_, _, _)

Vec_extend_trie(self, other, lower, upper) ==
  IF lower < upper
  THEN [self EXCEPT !.keys = @ \o Slice(other.keys, lower, upper)]
  ELSE [self EXCEPT !.ok = FALSE]

TrieLayer_extend_trie_vals_from_zero(self, other, lower, upper) ==
  IF ~(lower < upper) THEN [self EXCEPT !.ok = FALSE]
  ELSE
    LET other_basis == IF lower = 0 THEN 0 ELSE At(other.keys, lower - 1)[2]
        self_basis == keys(self.vals)
        moved == Slice(other.keys, lower, upper)
        newkeys == self.keys \o
                     [i \in 1 .. Len(moved) |->
                        <<moved[i][1], (moved[i][2] + self_basis) - other_basis>>]
        newvals == extend_trie(self.vals, other.vals, 0,
                               At(other.keys, upper - 1)[2])
    IN  [self EXCEPT !.keys = newkeys,
                     !.vals = newvals,
                     !.ok = @ /\ newvals.ok /\ keys(newvals) = Last(newkeys)[2]]

TrieLayer_extend_trie(self, other, lower, upper) ==
  IF ~(lower < upper) THEN [self EXCEPT !.ok = FALSE]
  ELSE
    LET other_basis == IF lower = 0 THEN 0 ELSE At(other.keys, lower - 1)[2]
        self_basis == keys(self.vals)
        moved == Slice(other.keys, lower, upper)
        newkeys == self.keys \o
                     [i \in 1 .. Len(moved) |->
                        <<moved[i][1], (moved[i][2] + self_basis) - other_basis>>]
        newvals == extend_trie(self.vals, other.vals, other_basis,
                               At(other.keys, upper - 1)[2])
    IN  [self EXCEPT !.keys = newkeys,
                     !.vals = newvals,
                     !.ok = @ /\ newvals.ok /\ keys(newvals) = Last(newkeys)[2]]

extend_trie(self, other, lower, upper) ==
  IF self.d = 0 THEN Vec_extend_trie(self, other, lower, upper)
  ELSE TrieLayer_extend_trie(self, other, lower, upper)

\* The step of a Less / Greater arm: 1 + advance(&keys[(1+lower)..upper], ..).
skip_step(trie, lower, upper, key) ==
  1 + advance(Slice(trie.keys, 1 + lower, upper),
              LessThan(Slice(trie.keys, 1 + lower, upper), key))

\* The tail of both extend_merge implementations: the unused rest of either
\* side is appended.
extend_rest_first_only(self, trie1, lower1, upper1, trie2, lower2, upper2) ==
  IF lower1 < upper1 THEN extend_trie(self, trie1, lower1, upper1) ELSE self

extend_rest(self, trie1, lower1, upper1, trie2, lower2, upper2) ==
  LET s1 == IF lower1 < upper1 THEN extend_trie(self, trie1, lower1, upper1)
            ELSE self
  IN  IF lower2 < upper2 THEN extend_trie(s1, trie2, lower2, upper2) ELSE s1

\* The Equal arm of the leaf merge on the entries e1 = vec1[lower1] and
\* e2 = vec2[lower2]: the weights are summed, a zero sum pushes nothing.
\* (The sum is an i32; the weights of the model stay far from its limits.)
Vec_merge_equal_keep_zero(self, e1, e2) ==
  [self EXCEPT !.keys = Append(@, <<e1[1], e1[2] + e2[2]>>)]

Vec_merge_equal_first_weight(self, e1, e2) ==
  [self EXCEPT !.keys = Append(@, <<e1[1], e1[2]>>)]

Vec_merge_equal(self, e1, e2) ==
  LET count == e1[2] + e2[2]
  IN  IF count # 0 THEN [self EXCEPT !.keys = Append(@, <<e1[1], count>>)]
      ELSE self

RECURSIVE Vec_extend_merge(_, _, _, _, _, _, _)
Vec_extend_merge(self, vec1, lower1, upper1, vec2, lower2, upper2) ==
  IF lower1 < upper1 /\ lower2 < upper2
  THEN
    LET e1 == At(vec1.keys, lower1)
        e2 == At(vec2.keys, lower2)
    IN  IF e1[1] < e2[1] THEN
          LET step == skip_step(vec1, lower1, upper1, e2[1])
              next == extend_trie(self, vec1, lower1, lower1 + step)
          IN  Vec_extend_merge([next EXCEPT !.ok = @ /\ step > 0],
                               vec1, lower1 + step, upper1, vec2, lower2, upper2)
        ELSE IF e1[1] = e2[1] THEN
          Vec_extend_merge(Vec_merge_equal(self, e1, e2),
                           vec1, lower1 + 1, upper1, vec2, lower2 + 1, upper2)
        ELSE
          LET step == skip_step(vec2, lower2, upper2, e1[1])
              next == extend_trie(self, vec2, lower2, lower2 + step)
          IN  Vec_extend_merge([next EXCEPT !.ok = @ /\ step > 0],
                               vec1, lower1, upper1, vec2, lower2 + step, upper2)
  ELSE extend_rest(self, vec1, lower1, upper1, vec2, lower2, upper2)

skip_step_from_lower_or_equal(vec, lower, upper, key) ==
  advance(Slice(vec.keys, lower, upper),
          LessOrEqual(Slice(vec.keys, lower, upper), key))

\* The step of a Less / Greater arm of the merge of Vec<(K, isize)>:
\* advance(&vec[lower..upper], ..).
skip_step_from_lower(vec, lower, upper, key) ==
  advance(Slice(vec.keys, lower, upper),
          LessThan(Slice(vec.keys, lower, upper), key))

\* extend_merge of Vec<(K, isize)>.
RECURSIVE Vec_isize_extend_merge(_, _, _, _, _, _, _)
Vec_isize_extend_merge(self, vec1, lower1, upper1, vec2, lower2, upper2) ==
  IF lower1 < upper1 /\ lower2 < upper2
  THEN
    LET e1 == At(vec1.keys, lower1)
        e2 == At(vec2.keys, lower2)
    IN  IF e1[1] < e2[1] THEN
          LET step == skip_step_from_lower(vec1, lower1, upper1, e2[1])
              next == extend_trie(self, vec1, lower1, lower1 + step)
          IN  Vec_isize_extend_merge([next EXCEPT !.ok = @ /\ step > 0],
                                     vec1, lower1 + step, upper1,
                                     vec2, lower2, upper2)
        ELSE IF e1[1] = e2[1] THEN
          Vec_isize_extend_merge(Vec_merge_equal(self, e1, e2),
                                 vec1, lower1 + 1, upper1,
                                 vec2, lower2 + 1, upper2)
        ELSE
          LET step == skip_step_from_lower(vec2, lower2, upper2, e1[1])
              next == extend_trie(self, vec2, lower2, lower2 + step)
          IN  Vec_isize_extend_merge([next EXCEPT !.ok = @ /\ step > 0],
                                     vec1, lower1, upper1,
                                     vec2, lower2 + step, upper2)
  ELSE extend_rest(self, vec1, lower1, upper1, vec2, lower2, upper2)

RECURSIVE TrieLayer_extend_merge(_, _, _, _, _, _, _)
TrieLayer_extend_merge(self, trie1, lower1, upper1, trie2, lower2, upper2) ==
  IF lower1 < upper1 /\ lower2 < upper2
  THEN
    LET e1 == At(trie1.keys, lower1)
        e2 == At(trie2.keys, lower2)
    IN  IF e1[1] < e2[1] THEN
          LET step == skip_step(trie1, lower1, upper1, e2[1])
              next == extend_trie(self, trie1, lower1, lower1 + step)
          IN  TrieLayer_extend_merge([next EXCEPT !.ok = @ /\ step > 0],
                                     trie1, lower1 + step, upper1,
                                     trie2, lower2, upper2)
        ELSE IF e1[1] = e2[1] THEN
          LET v_lower1 == IF lower1 = 0 THEN 0 ELSE At(trie1.keys, lower1 - 1)[2]
              v_lower2 == IF lower2 = 0 THEN 0 ELSE At(trie2.keys, lower2 - 1)[2]
              v_upper1 == e1[2]
              v_upper2 == e2[2]
              v_len == keys(self.vals)
              newvals == extend_merge(self.vals,
                                      trie1.vals, v_lower1, v_upper1,
                                      trie2.vals, v_lower2, v_upper2)
              newkeys == IF keys(newvals) > v_len
                         THEN Append(self.keys, <<e1[1], keys(newvals)>>)
                         ELSE self.keys
          IN  TrieLayer_extend_merge(
                [self EXCEPT !.keys = newkeys, !.vals = newvals,
                             !.ok = @ /\ newvals.ok],
                trie1, lower1 + 1, upper1, trie2, lower2 + 1, upper2)
        ELSE
          LET step == skip_step(trie2, lower2, upper2, e1[1])
              next == extend_trie(self, trie2, lower2, lower2 + step)
          IN  TrieLayer_extend_merge([next EXCEPT !.ok = @ /\ step > 0],
                                     trie1, lower1, upper1,
                                     trie2, lower2 + step, upper2)
  ELSE extend_rest(self, trie1, lower1, upper1, trie2, lower2, upper2)

extend_merge(self, other1, lower1, upper1, other2, lower2, upper2) ==
  IF self.d = 0
  THEN Vec_extend_merge(self, other1, lower1, upper1, other2, lower2, upper2)
  ELSE TrieLayer_extend_merge(self, other1, lower1, upper1,
                              other2, lower2, upper2)

Vec_extend_tuple(self, tuple, is_new) ==
  [self EXCEPT !.keys = Append(@, tuple)]

TrieLayer_extend_tuple_no_patch(self, tuple, is_new) ==
  LET is_new2 == is_new \/ self.keys = <<>> \/ Last(self.keys)[1] # tuple[1]
      pushed == IF is_new2 THEN Append(self.keys, <<tuple[1], 0>>)
                ELSE self.keys
  IN  [self EXCEPT !.keys = pushed,
                   !.vals = extend_tuple(self.vals, tuple[2], is_new2)]

TrieLayer_extend_tuple(self, tuple, is_new) ==
  LET is_new2 == is_new \/ self.keys = <<>> \/ Last(self.keys)[1] # tuple[1]
      pushed == IF is_new2 THEN Append(self.keys, <<tuple[1], 0>>)
                ELSE self.keys
      newvals == extend_tuple(self.vals, tuple[2], is_new2)
  IN  [self EXCEPT !.keys = [pushed EXCEPT ![Len(pushed)][2] = keys(newvals)],
                   !.vals = newvals]

extend_tuple(self, tuple, is_new) ==
  IF self.d = 0 THEN Vec_extend_tuple(self, tuple, is_new)
  ELSE TrieLayer_extend_tuple(self, tuple, is_new)

merge(self, other) ==
  extend_merge(with_capacity(self, other),
               self, 0, keys(self), other, 0, keys(other))

\* from_ordered for the layer type of depth d; iter is the sequence of items.
RECURSIVE from_ordered_loop(_, _, _)
from_ordered_loop(res, iter, i) ==
  IF i > Len(iter) THEN res
  ELSE from_ordered_loop(extend_tuple(res, iter[i], FALSE), iter, i + 1)

from_ordered(d, iter) == from_ordered_loop(new(d), iter, 1)

\* ------------------------------------------------------------ cursors
\* A cursor holds its slice by value.  SliceCursor: [d |-> 0, index, slice];
\* TrieCursor over a TrieLayer of depth n: [d |-> n, index, keys, vals].
SliceCursor_new(slice) == [d |-> 0, index |-> 0, slice |-> slice]

TrieCursor_new(ks, vs) == [d |-> vs.d + 1, index |-> 0, keys |-> ks, vals |-> vs]

keys_cnt(self) == Len(self.keys)

Vec_cursor(self, lower, upper) == SliceCursor_new(Slice(self.keys, lower, upper))

TrieLayer_cursor(self, lower, upper) ==
  TrieCursor_new(Slice(self.keys, lower, upper), self.vals)

cursor(self, lower, upper) ==
  IF self.d = 0 THEN Vec_cursor(self, lower, upper)
  ELSE TrieLayer_cursor(self, lower, upper)

\* next returns the item (Option of <<key, val>>) and the advanced cursor.
SliceCursor_next(c) ==
  IF c.index < Len(c.slice)
  THEN [ret |-> Some(<<At(c.slice, c.index)[1], At(c.slice, c.index)[2]>>),
        cur |-> [c EXCEPT !.index = @ + 1]]
  ELSE [ret |-> None, cur |-> c]

TrieCursor_next_from_zero(c) ==
  IF c.index < Len(c.keys)
  THEN [ret |-> Some(<<At(c.keys, c.index)[1],
                       cursor(c.vals, 0, At(c.keys, c.index)[2])>>),
        cur |-> [c EXCEPT !.index = @ + 1]]
  ELSE [ret |-> None, cur |-> c]

TrieCursor_next(c) ==
  IF c.index < Len(c.keys)
  THEN LET current == c.index
           v_lower == IF current = 0 THEN 0 ELSE At(c.keys, current - 1)[2]
           v_upper == At(c.keys, current)[2]
       IN  [ret |-> Some(<<At(c.keys, current)[1],
                           cursor(c.vals, v_lower, v_upper)>>),
            cur |-> [c EXCEPT !.index = @ + 1]]
  ELSE [ret |-> None, cur |-> c]

Cursor_next(c) == IF c.d = 0 THEN SliceCursor_next(c) ELSE TrieCursor_next(c)

SliceCursor_seek(c, key) ==
  LET rest == Slice(c.slice, c.index, Len(c.slice))
  IN  [c EXCEPT !.index = @ + advance(rest, LessThan(rest, key))]

TrieCursor_seek(c, key) ==
  LET rest == Slice(c.keys, c.index, Len(c.keys))
  IN  [c EXCEPT !.index = @ + advance(rest, LessThan(rest, key))]

Cursor_seek(c, key) ==
  IF c.d = 0 THEN SliceCursor_seek(c, key) ELSE TrieCursor_seek(c, key)

SliceCursor_peek(c) ==
  IF c.index < Len(c.slice) THEN Some(At(c.slice, c.index)[1]) ELSE None

TrieCursor_peek(c) ==
  IF c.index < Len(c.keys) THEN Some(At(c.keys, c.index)[1]) ELSE None

Cursor_peek(c) == IF c.d = 0 THEN SliceCursor_peek(c) ELSE TrieCursor_peek(c)

SliceCursor_size_of_slice(c) == Len(c.slice)

SliceCursor_size(c) == Len(c.slice) - c.index

TrieCursor_size(c) == Len(c.keys) - c.index

Cursor_size(c) == IF c.d = 0 THEN SliceCursor_size(c) ELSE TrieCursor_size(c)

\* ------------------------------------------------------- CursorMerger
\* An entry of CursorMerger.cursors is <<<<key, val>>, cursor>>.
FrontKey(entry) == entry[1][1]

\* slice.sort_by(|x,y| (x.0).0.cmp(&(y.0).0)): a stable sort by front key.
RECURSIVE sort_by(_)
sort_by(s) ==
  IF s = <<>> THEN <<>>
  ELSE LET sorted == sort_by(SubSeq(s, 1, Len(s) - 1))
           e == Last(s)
           pos == Cardinality({i \in 1 .. Len(sorted) :
                                 FrontKey(sorted[i]) <= FrontKey(e)})
       IN  SubSeq(sorted, 1, pos) \o <<e>> \o SubSeq(sorted, pos + 1, Len(sorted))

Remove(s, i) == SubSeq(s, 1, i) \o SubSeq(s, i + 2, Len(s))

CursorMerger_new == [started |-> None, cursors |-> <<>>]

RECURSIVE next_advance_skipping(_, _, _)
next_advance_skipping(cs, finger, prev) ==
  IF finger < prev
  THEN IF finger >= Len(cs)
       THEN [cursors |-> cs, cursor |-> prev, ok |-> FALSE]
       ELSE LET n == Cursor_next(Cursor_next(At(cs, finger)[2]).cur)
            IN  IF n.ret # None
                THEN next_advance_skipping([cs EXCEPT ![finger + 1] = <<n.ret[1], n.cur>>],
                                           finger + 1, prev)
                ELSE next_advance_skipping(Remove(cs, finger), finger, prev - 1)
  ELSE [cursors |-> cs, cursor |-> prev, ok |-> TRUE]

\* The loop that advances self.cursors[0 .. previous] and discards the
\* drained ones.  ok is FALSE when self.cursors[finger] is out of range.
RECURSIVE next_advance(_, _, _)
next_advance(cs, finger, prev) ==
  IF finger < prev
  THEN IF finger >= Len(cs)
       THEN [cursors |-> cs, cursor |-> prev, ok |-> FALSE]
       ELSE LET n == Cursor_next(At(cs, finger)[2])
            IN  IF n.ret # None
                THEN next_advance([cs EXCEPT ![finger + 1] = <<n.ret[1], n.cur>>],
                                  finger + 1, prev)
                ELSE next_advance(Remove(cs, finger), finger, prev - 1)
  ELSE [cursors |-> cs, cursor |-> prev, ok |-> TRUE]

\* max_key over self.cursors[0 .. prev], prev > 0.
RECURSIVE next_max_key(_, _, _, _)
next_max_key(cs, prev, idx, max_key) ==
  IF idx < prev
  THEN next_max_key(cs, prev, idx + 1,
                    IF FrontKey(At(cs, idx)) > max_key
                    THEN FrontKey(At(cs, idx)) ELSE max_key)
  ELSE max_key

next_prefix_not_extended(cs, count, max_key) == count

\* "scan prefix of old keys until we pass it"
RECURSIVE next_prefix(_, _, _)
next_prefix(cs, count, max_key) ==
  IF count < Len(cs) /\ FrontKey(At(cs, count)) <= max_key
  THEN next_prefix(cs, count + 1, max_key)
  ELSE count

next_resort_skipped(cs, prev) == cs

\* "sort the disordered elements"
next_resort(cs, prev) ==
  IF prev > 0
  THEN LET max_key == next_max_key(cs, prev, 1, FrontKey(At(cs, 0)))
           count == next_prefix(cs, prev, max_key)
       IN  sort_by(SubSeq(cs, 1, count)) \o SubSeq(cs, count + 1, Len(cs))
  ELSE cs

next_group_single(cs, count) == count

\* The length of the equal-key prefix that next exposes.
RECURSIVE next_group(_, _)
next_group(cs, count) ==
  IF count < Len(cs) /\ FrontKey(At(cs, 0)) = FrontKey(At(cs, count))
  THEN next_group(cs, count + 1)
  ELSE count

\* CursorMerger::next on merger m: the merger afterwards, the returned group
\* (Option of a slice of entries), and ok = FALSE when the call panics.
CursorMerger_next(m) ==
  LET adv1 == IF m.started # None
              THEN next_advance(m.cursors, 0, m.started[1])
              ELSE [cursors |-> m.cursors, cursor |-> 0, ok |-> TRUE]
      cs == IF adv1.ok THEN next_resort(adv1.cursors, adv1.cursor)
            ELSE adv1.cursors
  IN  IF ~adv1.ok THEN [m |-> m, ret |-> None, ok |-> FALSE]
      ELSE IF Len(cs) > 0
      THEN LET count == next_group(cs, 1)
           IN  [m |-> [started |-> Some(count), cursors |-> cs],
                ret |-> Some(SubSeq(cs, 1, count)), ok |-> TRUE]
      ELSE [m |-> [m EXCEPT !.cursors = cs], ret |-> None, ok |-> TRUE]

\* CursorMerger::from over the sequence of cursors iterator.
RECURSIVE from_loop(_, _, _)
from_loop(cs, iterator, i) ==
  IF i > Len(iterator) THEN cs
  ELSE LET n == Cursor_next(iterator[i])
       IN  from_loop(IF n.ret # None THEN Append(cs, <<n.ret[1], n.cur>>) ELSE cs,
                     iterator, i + 1)

CursorMerger_from(iterator) ==
  [CursorMerger_new EXCEPT !.cursors = sort_by(from_loop(<<>>, iterator, 1))]

\* -------------------------------------------------------------- Arbor
Arbor_new == <<>>

RECURSIVE Arbor_size_loop(_, _)
Arbor_size_loop(ts, i) ==
  IF i > Len(ts) THEN 0 ELSE tuples(ts[i]) + Arbor_size_loop(ts, i + 1)

Arbor_size(ts) == Arbor_size_loop(ts, 1)

within_2x_not_halved(trie1, trie2) == tuples(trie1) > tuples(trie2)

within_2x_rounded_up(trie1, trie2) == tuples(trie1) > (tuples(trie2) + 1) \div 2

\* "if trie1 is within 2x of trie2 merge, ..."
within_2x(trie1, trie2) == tuples(trie1) > tuples(trie2) \div 2

append_loop_once(ts) ==
  IF Len(ts) > 1 /\ within_2x(ts[Len(ts)], ts[Len(ts) - 1])
  THEN Append(SubSeq(ts, 1, Len(ts) - 2),
              extend_merge(with_capacity(ts[Len(ts)], ts[Len(ts) - 1]),
                           ts[Len(ts)], 0, keys(ts[Len(ts)]),
                           ts[Len(ts) - 1], 0, keys(ts[Len(ts) - 1])))
  ELSE ts

\* The while loop of Arbor::append, on the stack ts after the push.
RECURSIVE append_loop(_)
append_loop(ts) ==
  IF Len(ts) > 1
  THEN LET trie1 == ts[Len(ts)]
           trie2 == ts[Len(ts) - 1]
           rest == SubSeq(ts, 1, Len(ts) - 2)
       IN  IF within_2x(trie1, trie2)
           THEN append_loop(
                  Append(rest,
                         extend_merge(with_capacity(trie1, trie2),
                                      trie1, 0, keys(trie1),
                                      trie2, 0, keys(trie2))))
           ELSE Append(Append(rest, trie2), trie1)
  ELSE ts

Arbor_append_no_merge(ts, trie) == Append(ts, trie)

Arbor_append(ts, trie) == append_loop(Append(ts, trie))

Arbor_extend_ordered(ts, iterator) ==
  Arbor_append(ts, from_ordered(T, iterator))

Arbor_push(ts, tuple) == Arbor_append(ts, from_ordered(T, <<tuple>>))

Arbor_cursor(ts) ==
  CursorMerger_from([i \in 1 .. Len(ts) |-> cursor(ts[i], 0, keys_cnt(ts[i]))])

\* ------------------------------------------------- inputs and history
\* The items of a layer of depth d, over the key set K and the weights.
RECURSIVE ItemSetOver(_, _)
ItemSetOver(d, K) ==
  IF d = 0 THEN {<<k, w>> : k \in K, w \in Weights}
  ELSE {<<k, it>> : k \in K, it \in ItemSetOver(d - 1, K)}

ArborKeySet(d) == IF d = 0 THEN LeafKeySet ELSE KeySet

ItemSet(d) == ItemSetOver(d, ArborKeySet(d))

\* The full key of an item (its keys from the top level down) and its weight.
RECURSIVE Path(_, _)
Path(it, d) == IF d = 0 THEN <<it[1]>> ELSE <<it[1]>> \o Path(it[2], d - 1)

RECURSIVE Weight(_, _)
Weight(it, d) == IF d = 0 THEN it[2] ELSE Weight(it[2], d - 1)

PathSet(d) == [1 .. d + 1 -> ArborKeySet(d)]

\* Lexicographic order of full keys of equal length (the Ord of tuples).
PathLess(p, q) ==
  \E i \in 1 .. Len(p) : p[i] < q[i] /\ \A j \in 1 .. i - 1 : p[j] = q[j]

\* The ordered batches given to extend_ordered: sequences of at most MaxBatch
\* items whose full keys strictly increase.
Batches(d) ==
  UNION {{b \in [1 .. n -> ItemSet(d)] :
            \A i \in 1 .. n - 1 : PathLess(Path(b[i], d), Path(b[i + 1], d))}
         : n \in 0 .. MaxBatch}

LeafBatches == Batches(0)
TrieBatches == Batches(1)
BatchSet(d) == IF d = 0 THEN LeafBatches ELSE TrieBatches

ArborDepths == {0, 1}

\* History of one trie: per full key, the sum w of the weights inserted and
\* the number n of tuples inserted, over the batches merged into the trie.
PartOf(b, d) ==
  [p \in PathSet(d) |->
     LET hit == {i \in 1 .. Len(b) : Path(b[i], d) = p}
     IN  IF hit = {} THEN [w |-> 0, n |-> 0]
         ELSE [w |-> Weight(b[CHOOSE i \in hit : TRUE], d), n |-> 1]]

PartSum(a, b) ==
  [p \in DOMAIN a |-> [w |-> a[p].w + b[p].w, n |-> a[p].n + b[p].n]]

\* The histories after an append that left len tries: the tail is merged.
RECURSIVE PartsMerged(_, _)
PartsMerged(ps, len) ==
  IF Len(ps) > len
  THEN PartsMerged(Append(SubSeq(ps, 1, Len(ps) - 2),
                          PartSum(ps[Len(ps) - 1], ps[Len(ps)])), len)
  ELSE ps

\* The full keys of the items of a batch.
BatchPaths(b, d) == {Path(b[i], d) : i \in 1 .. Len(b)}

AllOk(ts) == \A i \in 1 .. Len(ts) : ts[i].ok

\* -------------------------------------------------- Arbor: the actions
NoMerger ==
  /\ started = None /\ cursors = <<>> /\ result = None
  /\ out = <<>> /\ nones = 0

NoIndex ==
  /\ itries = <<>> /\ index = <<>> /\ spill = <<>>
  /\ probe = None /\ evicted = 0

NoCursor == layer = <<>> /\ cur = <<>> /\ item = <<>>

NoAdvance == adv = <<>>

NoScan ==
  /\ loaded = {} /\ scanned = None /\ pair = <<>> /\ merged = None
  /\ sources = <<>>

InitArbor ==
  /\ T \in ArborDepths
  /\ tries = Arbor_new /\ parts = <<>> /\ appends = 0
  /\ pc = "idle"
  /\ NoMerger /\ NoIndex /\ NoCursor /\ NoAdvance /\ NoScan

mergerVars == <<started, cursors, result, out, nones>>
arborVars == <<T, tries, parts, appends>>
indexVars == <<itries, index, spill, probe, evicted>>
cursorVars == <<layer, cur, item>>
layerVars == <<pair, merged, sources>>
scanVars == <<loaded, scanned, layerVars>>

Appended(ts, b) ==
  /\ appends' = appends + 1
  /\ IF AllOk(ts)
     THEN /\ tries' = ts
          /\ parts' = PartsMerged(Append(parts, PartOf(b, T)), Len(ts))
          /\ pc' = "idle"
     ELSE /\ pc' = "panic"
          /\ UNCHANGED <<tries, parts>>
  /\ UNCHANGED <<T, mergerVars, indexVars, cursorVars, adv, scanVars>>

ExtendOrdered ==
  /\ pc = "idle" /\ appends < MaxAppends
  /\ \E b \in BatchSet(T) : Appended(Arbor_extend_ordered(tries, b), b)

Push ==
  /\ pc = "idle" /\ appends < MaxAppends
  /\ \E tuple \in ItemSet(T) : Appended(Arbor_push(tries, tuple), <<tuple>>)

\* let mut cursor = arbor.cursor();
Cursor ==
  /\ pc = "idle"
  /\ pc' = "scan"
  /\ LET m == Arbor_cursor(tries)
     IN  started' = m.started /\ cursors' = m.cursors
  /\ UNCHANGED <<result, out, nones, arborVars, indexVars, cursorVars, adv, scanVars>>

\* let mut merger = CursorMerger::new();
MergerNew ==
  /\ pc = "idle"
  /\ pc' = "fresh"
  /\ started' = CursorMerger_new.started
  /\ cursors' = CursorMerger_new.cursors
  /\ UNCHANGED <<result, out, nones, arborVars, indexVars, cursorVars, adv, scanVars>>

\* merger.next()
MergerNext ==
  /\ pc \in {"scan", "fresh", "probe"} /\ nones < MaxNones
  /\ LET r == CursorMerger_next([started |-> started, cursors |-> cursors])
     IN  IF r.ok
         THEN /\ started' = r.m.started
              /\ cursors' = r.m.cursors
              /\ result' = r.ret
              /\ out' = IF r.ret # None
                        THEN Append(out, FrontKey(r.ret[1][1])) ELSE out
              /\ nones' = IF r.ret = None THEN nones + 1 ELSE nones
              /\ pc' = pc
         ELSE /\ pc' = "panic"
              /\ UNCHANGED mergerVars
  /\ UNCHANGED <<arborVars, indexVars, cursorVars, adv, scanVars>>

\* The merger is dropped, which ends its borrow of the arbor.
MergerDrop ==
  /\ pc \in {"scan", "fresh", "probe"}
  /\ pc' = "idle"
  /\ started' = None /\ cursors' = <<>> /\ result' = None
  /\ out' = <<>> /\ nones' = 0
  /\ UNCHANGED <<arborVars, indexVars, cursorVars, adv, scanVars>>

NextArbor ==
  \/ ExtendOrdered
  \/ Push
  \/ Cursor
  \/ MergerNew
  \/ MergerNext
  \/ MergerDrop

Spec == InitArbor /\ [][NextArbor]_vars

\* ------------------------------------------- Arbor: what the claims use
TopKeys(t) == {t.keys[i][1] : i \in 1 .. Len(t.keys)}

ResidentKeys == UNION {TopKeys(tries[i]) : i \in 1 .. Len(tries)}

RECURSIVE AccLoop(_, _)
AccLoop(p, i) == IF i > Len(parts) THEN 0 ELSE parts[i][p].w + AccLoop(p, i + 1)

\* The weight of full key p accumulated over all inserted tuples.
Acc(p) == AccLoop(p, 1)

\* The top-level keys under which some full key has a non-zero accumulated
\* weight (for a leaf arbor: the keys of non-zero accumulated weight).
SurvivingKeys == {p[1] : p \in {q \in PathSet(T) : Acc(q) # 0}}

RECURSIVE SortedSeq(_)
SortedSeq(S) ==
  IF S = {} THEN <<>>
  ELSE LET m == CHOOSE x \in S : \A y \in S : x <= y
       IN  <<m>> \o SortedSeq(S \ {m})

\* The full traversal of cursor c, descending into the inner cursors: the
\* sequence of <<full key, weight>> it yields.
RECURSIVE scan(_)
scan(c) ==
  LET n == Cursor_next(c)
  IN  IF n.ret = None THEN <<>>
      ELSE LET key == n.ret[1][1]
               val == n.ret[1][2]
               here == IF c.d = 0 THEN <<<<<<key>>, val>>>>
                       ELSE LET inner == scan(val)
                            IN  [i \in 1 .. Len(inner) |->
                                   <<<<key>> \o inner[i][1], inner[i][2]>>]
           IN  here \o scan(n.cur)

enumerate(t) == cursor(t, 0, keys_cnt(t))

\* A traversal of cursor() has been run until next returned None.
TraversalDone == pc = "scan" /\ nones > 0

\* C1 as claimed: a full traversal of cursor() yields exactly the sorted
\* sequence of the keys whose accumulated weight is non-zero, each once.
C1_YieldsNonZeroKeys == TraversalDone => out = SortedSeq(SurvivingKeys)

\* C1 amended: a full traversal of cursor() yields exactly the sorted sequence
\* of the distinct top-level keys of the resident tries, each once; every key
\* of non-zero accumulated weight is among them.
C1_YieldsResidentKeys ==
  TraversalDone =>
    /\ out = SortedSeq(ResidentKeys)
    /\ SurvivingKeys \subseteq Range(out)

\* C1 witness: a finished traversal over two or more tries that has yielded
\* a key whose accumulated weight is zero, and another that is not.
C1_Witness ==
  /\ TraversalDone /\ Len(tries) >= 2
  /\ \E k \in Range(out) : k \notin SurvivingKeys
  /\ \E k \in Range(out) : k \in SurvivingKeys

\* C2: for every pair of adjacent resident tries the later one has at most
\* half the tuples of the earlier one.
C2_SizeInvariant ==
  \A i \in 1 .. Len(tries) - 1 :
    /\ tuples(tries[i + 1]) <= tuples(tries[i]) \div 2
    /\ 2 * tuples(tries[i + 1]) <= tuples(tries[i])

\* Some full key inserted into trie i has been cancelled by a merge.
Cancelled(i) == \E p \in PathSet(T) : parts[i][p].n > 0 /\ parts[i][p].w = 0

\* C2 witness: two or more non-empty resident tries, one of them the result
\* of a merge that cancelled a tuple.
C2_Witness ==
  /\ Len(tries) >= 2
  /\ \A i \in 1 .. Len(tries) : tuples(tries[i]) > 0
  /\ \E i \in 1 .. Len(tries) : Cancelled(i)

\* C3: when the weights inserted for a full key into the batches merged into
\* one trie sum to zero (+1 in one batch, -1 in another), the trie's scan has
\* no entry for that full key, and the top-level key is absent too if no
\* other full key under it survives.
C3_MergeCancellation ==
  \A i \in 1 .. Len(tries) : \A p \in PathSet(T) :
    (parts[i][p].n > 0 /\ parts[i][p].w = 0) =>
      /\ \A j \in 1 .. Len(scan(enumerate(tries[i]))) :
           scan(enumerate(tries[i]))[j][1] # p
      /\ (\A q \in PathSet(T) : q[1] = p[1] => parts[i][q].w = 0)
           => p[1] \notin TopKeys(tries[i])

\* C3 witness: a two-level trie into which (k, v) went once with +1 and once
\* with -1, k having no other value, while another key of the trie survives.
C3_Witness ==
  /\ T = 1
  /\ \E i \in 1 .. Len(tries) : \E p \in PathSet(T) :
       /\ parts[i][p].n = 2 /\ parts[i][p].w = 0
       /\ \A q \in PathSet(T) : q[1] = p[1] => parts[i][q].w = 0
       /\ tuples(tries[i]) > 0

\* The trie offset invariant of one layer, and of the layers below it.
RECURSIVE OffsetInvariant(_)
OffsetInvariant(t) ==
  t.d = 0 \/
    /\ \A i \in 1 .. Len(t.keys) - 1 :
         /\ t.keys[i][1] < t.keys[i + 1][1]
         /\ t.keys[i][2] <= t.keys[i + 1][2]
    /\ t.keys # <<>> => Last(t.keys)[2] = keys(t.vals)
    /\ OffsetInvariant(t.vals)

\* C8: every resident TrieLayer has strictly increasing keys, non-decreasing
\* end offsets, and a last end offset equal to vals.keys().
C8_TrieOffsetInvariant == \A i \in 1 .. Len(tries) : OffsetInvariant(tries[i])

\* C8 witness: a two-level trie with two or more keys that is the result of a
\* merge of two or more batches.
C8_Witness ==
  /\ T = 1
  /\ \E i \in 1 .. Len(tries) :
       /\ Len(tries[i].keys) >= 2
       /\ \E p \in PathSet(T) : parts[i][p].n >= 2
       /\ tuples(tries[i]) >= 3

\* C9 as claimed: whenever a merger holds no source cursors, next returns
\* None, does not fail, and leaves the merger empty.
C9_NextOnEmptyMerger ==
  (pc \in {"scan", "fresh"} /\ cursors = <<>>) =>
    LET r == CursorMerger_next([started |-> started, cursors |-> cursors])
    IN  r.ok /\ r.ret = None /\ r.m.cursors = <<>>

\* ------------------------------------------------- advance on its own
\* The key-sorted slices of at most MaxLen elements over the keys
\* 1 .. MaxSeekKey, and the targets a key is compared with.
SeekKeys == 0 .. MaxSeekKey + 1

SortedSlices ==
  UNION {{sl \in [1 .. n -> {<<k, 1>> : k \in 1 .. MaxSeekKey}] :
            \A i \in 1 .. n - 1 : sl[i][1] <= sl[i + 1][1]}
         : n \in 0 .. MaxLen}

AtRest ==
  /\ T = 0 /\ tries = <<>> /\ parts = <<>> /\ appends = 0 /\ pc = "idle"
  /\ NoMerger /\ NoIndex /\ NoScan

InitAdvance == AtRest /\ NoCursor /\ NoAdvance

\* advance(slice, |x| x.0 < key) on a sorted slice: the predicate is true
\* on a prefix of the slice and false on the rest.
Advance ==
  /\ \E sl \in SortedSlices : \E key \in SeekKeys :
       LET r == advance_run(sl, LessThan(sl, key))
       IN  adv' = [slice |-> sl, key |-> key,
                   index |-> r.index, reads |-> r.reads]
  /\ UNCHANGED <<arborVars, pc, mergerVars, indexVars, cursorVars, scanVars>>

NextAdvance == Advance

SpecAdvance == InitAdvance /\ [][NextAdvance]_vars

\* The linear count of the prefix on which x.0 < key holds.
RECURSIVE LinearCount(_, _, _)
LinearCount(sl, key, i) ==
  IF i < Len(sl) /\ At(sl, i)[1] < key THEN LinearCount(sl, key, i + 1) ELSE i

\* C7: advance returns the length of the prefix on which the predicate holds
\* and applies the predicate to no index >= len(s), the empty slice included.
C7_AdvanceCorrect ==
  adv # <<>> =>
    /\ adv.index = LinearCount(adv.slice, adv.key, 0)
    /\ \A i \in adv.reads : 0 <= i /\ i < Len(adv.slice)

\* C7 witness: a call on a slice of five or more elements that returns a
\* prefix of three or more elements, shorter than the slice.
C7_Witness ==
  /\ adv # <<>>
  /\ Len(adv.slice) >= 5
  /\ adv.index >= 3 /\ adv.index < Len(adv.slice)

\* ------------------------------------------------- cursors on their own
\* The layers a cursor is taken from: leaves holding a sorted slice, and
\* two- and three-level tries built by from_ordered from an ordered batch.
CursorDepths == {1, 2}

CursorBatches(d) ==
  UNION {{b \in [1 .. n -> ItemSetOver(d, KeySet)] :
            /\ \A i \in 1 .. n : Weight(b[i], d) = 1
            /\ \A i \in 1 .. n - 1 : PathLess(Path(b[i], d), Path(b[i + 1], d))}
         : n \in 0 .. MaxCursorBatch}

CursorLayers ==
  {from_ordered(0, sl) : sl \in SortedSlices}
    \cup UNION {{from_ordered(d, b) : b \in CursorBatches(d)} : d \in CursorDepths}

\* The start of the range of keys[i] in vals, as the layer defines it:
\* "starts either at zero, or at the end of the range of the immediately
\* preceding key".
RangeStart(t, i) == IF i = 0 THEN 0 ELSE At(t.keys, i - 1)[2]

RangeEnd(t, i) == At(t.keys, i)[2]

\* What a cursor yields from here on: the items of repeated calls of next.
RECURSIVE Remaining(_)
Remaining(c) ==
  LET n == Cursor_next(c)
  IN  IF n.ret = None THEN <<>> ELSE <<n.ret[1]>> \o Remaining(n.cur)

InitCursor ==
  /\ AtRest /\ NoAdvance
  /\ \E t \in CursorLayers :
       /\ layer = [trie |-> t, lower |-> 0, upper |-> keys_cnt(t)]
       /\ cur = enumerate(t)
  /\ item = [op |-> "new", ret |-> None, pos |-> 0, key |-> 0, before |-> <<>>]

cursorFrame == <<arborVars, pc, mergerVars, indexVars, adv, scanVars>>

\* cursor.next()
CurNext ==
  /\ LET r == Cursor_next(cur)
     IN  /\ cur' = r.cur
         /\ item' = [op |-> "next", ret |-> r.ret,
                     pos |-> layer.lower + cur.index,
                     key |-> 0, before |-> Remaining(cur)]
  /\ UNCHANGED <<layer, cursorFrame>>

\* cursor.seek(&key)
CurSeek ==
  /\ \E key \in SeekKeys :
       /\ cur' = Cursor_seek(cur, key)
       /\ item' = [op |-> "seek", ret |-> None,
                   pos |-> layer.lower + cur.index,
                   key |-> key, before |-> Remaining(cur)]
  /\ UNCHANGED <<layer, cursorFrame>>

\* cursor.peek()
CurPeek ==
  /\ item' = [op |-> "peek", ret |-> Cursor_peek(cur),
              pos |-> layer.lower + cur.index,
              key |-> 0, before |-> Remaining(cur)]
  /\ UNCHANGED <<layer, cur, cursorFrame>>

\* The caller goes on with the inner cursor that next has just returned; it
\* is a cursor into layer.vals, meant for the range of keys[pos].
CurDescend ==
  /\ item.op = "next" /\ item.ret # None /\ layer.trie.d >= 1
  /\ cur' = item.ret[1][2]
  /\ layer' = [trie |-> layer.trie.vals,
               lower |-> RangeStart(layer.trie, item.pos),
               upper |-> RangeEnd(layer.trie, item.pos)]
  /\ item' = [op |-> "new", ret |-> None, pos |-> 0, key |-> 0, before |-> <<>>]
  /\ UNCHANGED cursorFrame

NextCursor ==
  \/ CurNext
  \/ CurSeek
  \/ CurPeek
  \/ CurDescend

SpecCursor == InitCursor /\ [][NextCursor]_vars

\* The suffix of a stream of items from its first key >= target on.
RECURSIVE FromFirstAtLeast(_, _)
FromFirstAtLeast(items, target) ==
  IF items # <<>> /\ items[1][1] < target
  THEN FromFirstAtLeast(Tail(items), target)
  ELSE items

\* The range the cursor was made over is sorted by key.
KeySortedRange(c) ==
  LET range == IF c.d = 0 THEN c.slice ELSE c.keys
  IN  \A i \in 1 .. Len(range) - 1 : range[i][1] <= range[i + 1][1]

\* C4: after seek(T) on a cursor over a key-sorted range, peek returns none
\* or a key >= T, and the cursor yields from then on exactly the items of the
\* pre-seek stream from its first key >= T on.
C4_SeekCorrect ==
  (item.op = "seek" /\ KeySortedRange(cur)) =>
    /\ Cursor_peek(cur) = None \/ Cursor_peek(cur)[1] >= item.key
    /\ Remaining(cur) = FromFirstAtLeast(item.before, item.key)

\* C4 witness: a seek from a position past the start that skips two or more
\* items and stops before the end.
C4_Witness ==
  /\ item.op = "seek" /\ KeySortedRange(cur)
  /\ item.pos > layer.lower
  /\ Len(Remaining(cur)) > 0
  /\ Len(item.before) - Len(Remaining(cur)) >= 2

\* C10 as claimed: the cursor of a layer range yields, for position i, the
\* key keys[i] with an inner cursor over exactly [keys[i-1].end, keys[i].end)
\* of vals (start 0 only for i = 0 in the whole layer), for lower > 0 too.
C10_InnerRange ==
  (item.op = "next" /\ item.ret # None) =>
    /\ item.pos < layer.upper
    /\ item.ret[1][1] = At(layer.trie.keys, item.pos)[1]
    /\ layer.trie.d >= 1 =>
         item.ret[1][2] = cursor(layer.trie.vals,
                                 RangeStart(layer.trie, item.pos),
                                 RangeEnd(layer.trie, item.pos))

\* ---------------------------------------------------------- ArborIndex
\* ArborIndex<K, Vec<(V, i32)>>: tries is a sequence of <<trie, count>>,
\* index a function from the keys present to <<index, offset, next>>, and
\* spill a sequence of such entries; next is an Option of a spill position.
ArborIndex_new == [tries |-> <<>>, index |-> <<>>, spill |-> <<>>]

\* self.index.get(key)
index_get(idx, key) == IF key \in DOMAIN idx THEN Some(idx[key]) ELSE None

index_remove_kept(idx, key) == idx

\* entry.remove()
index_remove(idx, key) == [k \in DOMAIN idx \ {key} |-> idx[k]]

\* entry.insert(e) and *entry.get_mut() = e
index_insert(idx, key, e) ==
  [k \in DOMAIN idx \cup {key} |-> IF k = key THEN e ELSE idx[k]]

append_evict_remove_all(idx, sp, other, i) ==
  [index |-> [k \in DOMAIN idx \ {At(other.keys, j)[1] : j \in i .. Len(other.keys) - 1}
                |-> idx[k]],
   ok |-> TRUE]

\* "pop entries from self.index": the loop over other.keys.  ok is FALSE
\* for unreachable!() and for a spill position out of range.
RECURSIVE append_evict(_, _, _, _)
append_evict(idx, sp, other, i) ==
  IF i >= Len(other.keys) THEN [index |-> idx, ok |-> TRUE]
  ELSE LET key == At(other.keys, i)[1]
       IN  IF key \notin DOMAIN idx THEN [index |-> idx, ok |-> FALSE]
           ELSE IF idx[key][3] # None
           THEN LET next == idx[key][3][1]
                IN  IF next >= Len(sp) THEN [index |-> idx, ok |-> FALSE]
                    ELSE append_evict(index_insert(idx, key, At(sp, next)),
                                      sp, other, i + 1)
           ELSE append_evict(index_remove(idx, key), sp, other, i + 1)

spill_pop_kept(sp, count) == sp

\* for _ in 0 .. count { self.spill.pop(); }
spill_pop(sp, count) ==
  SubSeq(sp, 1, IF Len(sp) > count THEN Len(sp) - count ELSE 0)

index_within_2x(last, trie) == tuples(last) <= 2 * tuples(trie)

\* The while loop of ArborIndex::append; st carries tries, index, spill, ok
\* and the number of spill entries released.
\* One round of the loop, given what the eviction ev has made of the index.
append_popped(st, trie, other, count, ev) ==
  [st |-> [tries |-> SubSeq(st.tries, 1, Len(st.tries) - 1),
           index |-> ev.index,
           spill |-> spill_pop(st.spill, count),
           ok |-> ev.ok,
           evicted |-> st.evicted + count],
   trie |-> IF ev.ok THEN merge(trie, other) ELSE trie]

RECURSIVE append_merge(_)
append_merge(m) ==
  IF /\ m.st.ok /\ Len(m.st.tries) > 0
     /\ index_within_2x(Last(m.st.tries)[1], m.trie)
  THEN append_merge(
         append_popped(m.st, m.trie, Last(m.st.tries)[1], Last(m.st.tries)[2],
                       append_evict(m.st.index, m.st.spill,
                                    Last(m.st.tries)[1], 0)))
  ELSE m

insert_occupied_no_spill(idx, sp, key, len, pos) ==
  [index |-> index_insert(idx, key, <<len, pos, None>>), spill |-> sp]

\* The Entry::Occupied arm of the index update.
insert_occupied(idx, sp, key, len, pos) ==
  LET pushed == Append(sp, idx[key])
  IN  [index |-> index_insert(idx, key, <<len, pos, Some(Len(pushed) - 1)>>),
       spill |-> pushed]

insert_vacant_dropped(idx, sp, key, len, pos) == [index |-> idx, spill |-> sp]

\* "update index for all keys in the result of the merge"
\* The Entry::Vacant arm of the index update.
insert_vacant(idx, sp, key, len, pos) ==
  [index |-> index_insert(idx, key, <<len, pos, None>>), spill |-> sp]

RECURSIVE append_insert(_, _, _, _)
append_insert(o, trie, len, pos) ==
  IF pos >= Len(trie.keys) THEN o
  ELSE append_insert(
         IF At(trie.keys, pos)[1] \in DOMAIN o.index
         THEN insert_occupied(o.index, o.spill, At(trie.keys, pos)[1], len, pos)
         ELSE insert_vacant(o.index, o.spill, At(trie.keys, pos)[1], len, pos),
         trie, len, pos + 1)

\* let count = self.spill.len() - spill_len; self.tries.push((trie, count));
append_pushed(m, spill_len, ins) ==
  [tries |-> Append(m.st.tries, <<m.trie, Len(ins.spill) - spill_len>>),
   index |-> ins.index,
   spill |-> ins.spill,
   ok |-> m.st.ok /\ m.trie.ok,
   evicted |-> m.st.evicted]

append_index_off_by_one(m) ==
  append_pushed(m, Len(m.st.spill),
                append_insert([index |-> m.st.index, spill |-> m.st.spill],
                              m.trie, Len(m.st.tries) + 1, 0))

\* The part of ArborIndex::append after the while loop.
append_index(m) ==
  append_pushed(m, Len(m.st.spill),
                append_insert([index |-> m.st.index, spill |-> m.st.spill],
                              m.trie, Len(m.st.tries), 0))

ArborIndex_append(self, trie) ==
  append_index(append_merge(
    [st |-> [tries |-> self.tries, index |-> self.index,
             spill |-> self.spill, ok |-> TRUE, evicted |-> 0],
     trie |-> trie]))

ArborIndex_extend_ordered(self, iterator) ==
  ArborIndex_append(self, from_ordered(1, iterator))

\* merger.clear(): "empty the list and reset the marker".
CursorMerger_clear(m) == [started |-> None, cursors |-> <<>>]

\* merger.push(cursor): the cursor is advanced once and kept with its
\* first item, or dropped when it has none.
CursorMerger_push(m, c) ==
  LET n == Cursor_next(c)
  IN  IF n.ret # None
      THEN [m EXCEPT !.cursors = Append(@, <<n.ret[1], n.cur>>)]
      ELSE m

get_into_range_from_zero(trie, offset) ==
  [lower |-> 0, upper |-> At(trie.keys, offset)[2]]

\* lower and upper of get_into for the key at offset of trie.
get_into_range(trie, offset) ==
  [lower |-> IF offset = 0 THEN 0 ELSE At(trie.keys, offset - 1)[2],
   upper |-> At(trie.keys, offset)[2]]

\* cursor.push(self.tries[index].0.vals.cursor(lower, upper))
get_into_push(m, vals, r) ==
  CursorMerger_push(m, cursor(vals, r.lower, r.upper))

\* The while loop of get_into over the chain of the key.  ok is FALSE for
\* an index out of range.
RECURSIVE get_into_loop(_, _, _)
get_into_loop(self, next, m) ==
  IF next = None THEN [m |-> m, ok |-> TRUE]
  ELSE LET idx == next[1][1]
           offset == next[1][2]
           sp == next[1][3]
       IN  IF \/ idx >= Len(self.tries)
              \/ offset >= Len(At(self.tries, idx)[1].keys)
              \/ sp # None /\ sp[1] >= Len(self.spill)
           THEN [m |-> m, ok |-> FALSE]
           ELSE get_into_loop(
                  self,
                  IF sp = None THEN None ELSE Some(At(self.spill, sp[1])),
                  get_into_push(m, At(self.tries, idx)[1].vals,
                                get_into_range(At(self.tries, idx)[1], offset)))

get_into_unsorted(r) == r

\* cursor.cursors.sort_by(...), the last statement of get_into.
get_into_sorted(r) == [m |-> [r.m EXCEPT !.cursors = sort_by(@)], ok |-> r.ok]

get_into(self, key, m) ==
  get_into_sorted(get_into_loop(self, index_get(self.index, key),
                                CursorMerger_clear(m)))

\* ---------------------------------------------- ArborIndex: the actions
ProbeKeys == 1 .. MaxKey + 1

\* The batches given to the index: ordered batches of (key, (value, weight))
\* in which a retraction (weight -1) is of the first value.
IndexBatches ==
  {b \in TrieBatches :
     \A i \in 1 .. Len(b) : Weight(b[i], 1) = -1 => Path(b[i], 1)[2] = 1}

InitIndex ==
  /\ T = 1 /\ tries = <<>> /\ parts = <<>> /\ appends = 0 /\ pc = "idle"
  /\ itries = ArborIndex_new.tries
  /\ index = ArborIndex_new.index
  /\ spill = ArborIndex_new.spill
  /\ probe = None /\ evicted = 0
  /\ NoMerger /\ NoCursor /\ NoAdvance /\ NoScan

\* The index after an append that has made st of it.
IndexAppended(st, b) ==
  /\ IF st.ok
     THEN /\ itries' = st.tries
          /\ index' = st.index
          /\ spill' = st.spill
          /\ evicted' = st.evicted
          /\ pc' = "idle"
     ELSE /\ pc' = "panic"
          /\ UNCHANGED <<itries, index, spill, evicted>>
  /\ appends' = appends + 1
  /\ loaded' = loaded \cup BatchPaths(b, 1)
  /\ UNCHANGED <<T, tries, parts, probe, mergerVars, cursorVars, adv, scanned, layerVars>>

IndexExtendOrdered ==
  /\ pc = "idle" /\ appends < MaxIndexAppends
  /\ \E b \in IndexBatches :
       IndexAppended(ArborIndex_extend_ordered(
                       [tries |-> itries, index |-> index, spill |-> spill], b),
                     b)

\* index.get_into(&key, &mut merger), on a merger of CursorMerger::new()
\* or on the one an earlier get_into has filled.
Probed(key, r) ==
  /\ probe' = Some(key)
  /\ IF r.ok
     THEN /\ started' = r.m.started
          /\ cursors' = r.m.cursors
          /\ pc' = "probe"
     ELSE /\ pc' = "panic"
          /\ UNCHANGED <<started, cursors>>
  /\ result' = None /\ out' = <<>> /\ nones' = 0
  /\ UNCHANGED <<arborVars, itries, index, spill, evicted, cursorVars, adv, scanVars>>

GetInto ==
  /\ pc \in {"fresh", "probe"}
  /\ \E key \in ProbeKeys :
       Probed(key,
              get_into([tries |-> itries, index |-> index, spill |-> spill],
                       key, [started |-> started, cursors |-> cursors]))

NextIndex ==
  \/ IndexExtendOrdered
  \/ MergerNew
  \/ GetInto
  \/ MergerNext
  \/ MergerDrop

SpecIndex == InitIndex /\ [][NextIndex]_vars

\* The resident tries (0-based positions in tries) that contain the key.
Holders(key) ==
  {i \in 0 .. Len(itries) - 1 : key \in TopKeys(At(itries, i)[1])}

\* The chain of the key: its index entry and the spill entries linked to it.
RECURSIVE ChainFrom(_, _)
ChainFrom(next, fuel) ==
  IF next = None \/ fuel = 0 THEN <<>>
  ELSE <<next[1]>>
         \o ChainFrom(IF next[1][3] = None THEN None
                      ELSE Some(At(spill, next[1][3][1])), fuel - 1)

Chain(key) == ChainFrom(index_get(index, key), Len(spill) + 2)

\* C5: for every key the length of its chain (index entry plus linked spill
\* entries) is the number of resident tries that contain the key.
C5_ChainLength ==
  \A key \in KeySet : Len(Chain(key)) = Cardinality(Holders(key))

\* C5 witness: an append has evicted a trie and released spill entries,
\* and a key is again held by two resident tries.
C5_Witness ==
  /\ evicted > 0
  /\ \E key \in KeySet : Len(Chain(key)) >= 2

\* The merger entry of get_into for the key in resident trie i: the first
\* value of the key's range with a cursor over the whole range, advanced
\* once.
OffsetOf(t, key) == CHOOSE o \in 0 .. Len(t.keys) - 1 : At(t.keys, o)[1] = key

ProbeEntry(i, key) ==
  LET t == At(itries, i)[1]
      o == OffsetOf(t, key)
      lo == IF o = 0 THEN 0 ELSE At(t.keys, o - 1)[2]
      hi == At(t.keys, o)[2]
  IN  <<At(t.vals.keys, lo),
        [d |-> 0, index |-> 1, slice |-> Slice(t.vals.keys, lo, hi)]>>

Count(s, x) == Cardinality({j \in 1 .. Len(s) : s[j] = x})

\* The values stored under the key in the resident tries.
ValuesUnder(key) ==
  UNION {{ProbeEntry(i, key)[2].slice[j][1]
            : j \in 1 .. Len(ProbeEntry(i, key)[2].slice)}
         : i \in Holders(key)}

\* C6: get_into leaves in the merger exactly one inner cursor per resident
\* trie that contains the key, over [keys[off-1].end, keys[off].end) of that
\* trie (from 0 when off = 0), whatever the merger held before; a traversal
\* then yields exactly the values stored under the key, and nothing for a
\* key that is in no trie.
C6_GetInto ==
  pc = "probe" =>
    LET key == probe[1]
        expected == {ProbeEntry(i, key) : i \in Holders(key)}
    IN  /\ (out = <<>> /\ nones = 0) =>
             /\ started = None
             /\ Len(cursors) = Cardinality(Holders(key))
             /\ Range(cursors) = expected
             /\ \A x \in expected :
                  Count(cursors, x)
                    = Cardinality({i \in Holders(key) : ProbeEntry(i, key) = x})
        /\ nones > 0 => out = SortedSeq(ValuesUnder(key))

\* C6 witness: a probe of a key held by two resident tries, in one of them
\* at an offset past the first, traversed to the end.
C6_Witness ==
  /\ pc = "probe" /\ nones > 0
  /\ Cardinality(Holders(probe[1])) >= 2
  /\ \E i \in Holders(probe[1]) : OffsetOf(At(itries, i)[1], probe[1]) > 0

\* ------------------------------------------------ Arbor: trie sizes
\* C11 as claimed: every resident trie has more than twice the tuples of
\* the trie after it.
C11_StrictSpacing ==
  \A i \in 1 .. Len(tries) - 1 :
    tuples(tries[i]) > 2 * tuples(tries[i + 1])

\* C11: every resident trie has at least twice the tuples of the trie after
\* it; a trie of exactly twice the size of its successor is not merged.
C11_GeometricSpacing ==
  \A i \in 1 .. Len(tries) - 1 :
    tuples(tries[i]) >= 2 * tuples(tries[i + 1])

\* C11 witness: after three appends, two resident tries, the first exactly
\* twice the size of the non-empty second.
C11_Witness ==
  /\ appends = MaxAppends /\ pc = "idle"
  /\ Len(tries) = 2
  /\ tuples(tries[2]) > 0
  /\ tuples(tries[1]) = 2 * tuples(tries[2])

\* --------------------------------------------------- the full scan
\* ArborIndex::cursor
ArborIndex_cursor(self) ==
  CursorMerger_from([i \in 1 .. Len(self.tries) |->
                       cursor(self.tries[i][1], 0, keys_cnt(self.tries[i][1]))])

\* merger.refill_from(batch), batch being a group returned by the outer
\* merger: "pre-advance each source cursor once; drop any that are empty;
\* sort by front key", with fresh behaviour afterwards.  The sources are the
\* inner cursors of the group's entries.
CursorMerger_refill_from(m, batch) ==
  CursorMerger_from([i \in 1 .. Len(batch) |-> batch[i][1][2]])

\* while let Some(inner) = merger.next() { count += inner.len(); }
\* s holds the inner merger m, the count and ok (FALSE after a panic).
RECURSIVE inner_scan(_)

inner_scan_step(s, r) ==
  IF ~r.ok THEN [s EXCEPT !.ok = FALSE]
  ELSE IF r.ret = None THEN [s EXCEPT !.m = r.m]
  ELSE inner_scan([m |-> r.m, count |-> s.count + Len(r.ret[1]), ok |-> TRUE])

inner_scan(s) == inner_scan_step(s, CursorMerger_next(s.m))

\* while let Some(batch) = cursor.next() { merger.refill_from(batch); ... }
RECURSIVE full_scan_loop(_, _)

full_scan_step(s, r) ==
  IF ~r.ok THEN [s EXCEPT !.ok = FALSE]
  ELSE IF r.ret = None THEN s
  ELSE full_scan_loop(
         r.m,
         inner_scan([s EXCEPT !.m = CursorMerger_refill_from(s.m, r.ret[1])]))

full_scan_loop(c, s) ==
  IF ~s.ok THEN s ELSE full_scan_step(s, CursorMerger_next(c))

\* The full scan of test_arbor and test_index over the merger c of cursor().
full_scan(c) ==
  full_scan_loop(c, [m |-> CursorMerger_new, count |-> 0, ok |-> TRUE])

\* The batches of a load: key-sorted (key, (value, 1)) tuples whose
\* (key, value) pairs have not been given before.
ScanBatches ==
  UNION {{b \in [1 .. n -> ItemSetOver(1, LeafKeySet)] :
            /\ \A i \in 1 .. n : Weight(b[i], 1) = 1
            /\ \A i \in 1 .. n - 1 : PathLess(Path(b[i], 1), Path(b[i + 1], 1))}
         : n \in 0 .. MaxBatch}

InitScan ==
  /\ T = 1 /\ tries = Arbor_new /\ parts = <<>> /\ appends = 0 /\ pc = "idle"
  /\ itries = ArborIndex_new.tries
  /\ index = ArborIndex_new.index
  /\ spill = ArborIndex_new.spill
  /\ probe = None /\ evicted = 0
  /\ NoMerger /\ NoCursor /\ NoAdvance /\ NoScan

\* test_arbor: arbor_forward.extend_ordered(forward.drain(..))
ScanLoadedArbor(ts, b) ==
  /\ IF AllOk(ts) THEN tries' = ts /\ pc' = "idle"
     ELSE pc' = "panic" /\ UNCHANGED tries
  /\ appends' = appends + 1
  /\ loaded' = loaded \cup BatchPaths(b, 1)
  /\ scanned' = None
  /\ UNCHANGED <<T, parts, mergerVars, indexVars, cursorVars, adv, layerVars>>

ScanLoadArbor ==
  /\ pc = "idle" /\ itries = <<>> /\ appends < MaxScanAppends
  /\ \E b \in ScanBatches :
       /\ BatchPaths(b, 1) \cap loaded = {}
       /\ ScanLoadedArbor(Arbor_extend_ordered(tries, b), b)

\* test_index: arbor_forward.extend_ordered(forward.drain(..))
ScanLoadedIndex(st, b) ==
  /\ IF st.ok
     THEN /\ itries' = st.tries
          /\ index' = st.index
          /\ spill' = st.spill
          /\ evicted' = st.evicted
          /\ pc' = "idle"
     ELSE /\ pc' = "panic"
          /\ UNCHANGED <<itries, index, spill, evicted>>
  /\ appends' = appends + 1
  /\ loaded' = loaded \cup BatchPaths(b, 1)
  /\ scanned' = None
  /\ UNCHANGED <<T, tries, parts, probe, mergerVars, cursorVars, adv,
                 layerVars>>

ScanLoadIndex ==
  /\ pc = "idle" /\ tries = <<>> /\ appends < MaxScanAppends
  /\ \E b \in ScanBatches :
       /\ BatchPaths(b, 1) \cap loaded = {}
       /\ ScanLoadedIndex(
            ArborIndex_extend_ordered(
              [tries |-> itries, index |-> index, spill |-> spill], b), b)

\* The full scan has ended with s: assert_eq!(count, nodes * degree) is the
\* caller's; a panic inside the scan ends the run.
Scanned(s) ==
  /\ IF s.ok THEN scanned' = Some(s.count) /\ pc' = "idle"
     ELSE pc' = "panic" /\ UNCHANGED scanned
  /\ UNCHANGED <<arborVars, mergerVars, indexVars, cursorVars, adv, loaded, layerVars>>

FullScanArbor ==
  /\ pc = "idle" /\ itries = <<>> /\ scanned = None
  /\ Scanned(full_scan(Arbor_cursor(tries)))

FullScanIndex ==
  /\ pc = "idle" /\ tries = <<>> /\ scanned = None
  /\ Scanned(full_scan(ArborIndex_cursor(
                         [tries |-> itries, index |-> index, spill |-> spill])))

NextScan ==
  \/ ScanLoadArbor
  \/ ScanLoadIndex
  \/ FullScanArbor
  \/ FullScanIndex

SpecScan == InitScan /\ [][NextScan]_vars

\* C12: the full scan of an Arbor or ArborIndex over two-level tries, loaded
\* with key-sorted batches of pairwise distinct (key, value) pairs of weight
\* 1, counts exactly the tuples inserted, and ends without a failure.
C12_FullScanCount ==
  /\ pc # "panic"
  /\ scanned # None => scanned[1] = Cardinality(loaded)

\* C12 witness (Arbor): a scan that counted five or more tuples over three
\* resident tries, two of which hold the same top-level key.
C12_Witness ==
  /\ scanned # None /\ scanned[1] >= 5
  /\ Len(tries) >= 3
  /\ \E i, j \in 1 .. Len(tries) :
       i # j /\ TopKeys(tries[i]) \cap TopKeys(tries[j]) # {}

\* ------------------------------------------- Arbor: pushes of one tuple
\* The tuple of weight 1 with top-level key k for the layer type of depth d.
RECURSIVE PushTuple(_, _)
PushTuple(k, d) == IF d = 0 THEN <<k, 1>> ELSE <<k, PushTuple(1, d - 1)>>

PushKeys == 1 .. MaxPushes

InitPush ==
  /\ T \in ArborDepths
  /\ tries = Arbor_new /\ parts = <<>> /\ appends = 0
  /\ pc = "idle"
  /\ NoMerger /\ NoIndex /\ NoCursor /\ NoAdvance /\ NoScan

Pushed(ts, tuple) ==
  /\ IF AllOk(ts) THEN tries' = ts /\ pc' = "idle"
     ELSE pc' = "panic" /\ UNCHANGED tries
  /\ appends' = appends + 1
  /\ loaded' = loaded \cup {Path(tuple, T)}
  /\ UNCHANGED <<T, parts, mergerVars, indexVars, cursorVars, adv, scanned, layerVars>>

\* arbor.push(tuple) of a tuple whose key has not been pushed before.
PushDistinct ==
  /\ pc = "idle" /\ appends < MaxPushes
  /\ \E k \in PushKeys :
       /\ Path(PushTuple(k, T), T) \notin loaded
       /\ Pushed(Arbor_push(tries, PushTuple(k, T)), PushTuple(k, T))

NextPush ==
  \/ PushDistinct
  \/ Cursor
  \/ MergerNext
  \/ MergerDrop

SpecPush == InitPush /\ [][NextPush]_vars

\* The largest power of two that is at most n (n >= 1), from p on.
RECURSIVE HighBit(_, _)
HighBit(n, p) == IF 2 * p > n THEN p ELSE HighBit(n, 2 * p)

\* The powers of two of the binary representation of n, in descending order.
RECURSIVE BinaryPowers(_)
BinaryPowers(n) ==
  IF n = 0 THEN <<>> ELSE <<HighBit(n, 1)>> \o BinaryPowers(n - HighBit(n, 1))

\* The tuples below the entry of a returned group: the entry's key with its
\* weight (leaf), or with what its inner cursor yielded and yields.
EntryTuples(entry) ==
  IF T = 0 THEN <<entry[1]>>
  ELSE [i \in 1 .. Len(Remaining(entry[1][2])) |->
          <<entry[1][1], Remaining(entry[1][2])[i]>>]

\* C13: after n pushes of single tuples with pairwise distinct keys the
\* sizes of the resident tries are the powers of two of the binary
\* representation of n in descending order, and the traversal of cursor()
\* returns one group per tuple, in sorted key order, each holding that tuple.
C13_BinaryCounter ==
  /\ [i \in 1 .. Len(tries) |-> tuples(tries[i])] = BinaryPowers(appends)
  /\ Arbor_size(tries) = appends
  /\ (pc = "scan" /\ result # None) =>
       /\ Len(result[1]) = 1
       /\ EntryTuples(result[1][1]) = <<PushTuple(FrontKey(result[1][1]), T)>>
  /\ TraversalDone => out = SortedSeq({p[1] : p \in loaded})

\* C13 witness: seven pushes, tries of 4, 2 and 1 tuples, traversed to the
\* end.
C13_Witness ==
  /\ appends = 7 /\ Len(tries) = 3
  /\ TraversalDone /\ Len(out) = 7

\* ------------------------------------------- ArborIndex: the hash map
\* C14: the hash map has an entry for key K if and only if K is a top-level
\* key of at least one resident trie.
C14_IndexEntries ==
  /\ DOMAIN index \subseteq KeySet
  /\ \A key \in KeySet : key \in DOMAIN index <=> Holders(key) # {}

\* C14 witness: a key that was given to the index has no entry any more (it
\* cancelled in a merge), while another key still has one.
C14_Witness ==
  /\ pc = "idle"
  /\ \E key \in KeySet :
       /\ \E p \in loaded : p[1] = key
       /\ key \notin DOMAIN index
  /\ DOMAIN index # {}

\* ------------------------------------------- Arbor: number of tries
\* floor(log2(n)) for n >= 1.
RECURSIVE Log2(_)
Log2(n) == IF n <= 1 THEN 0 ELSE 1 + Log2(n \div 2)

\* C15 as claimed: the number of resident tries is at most
\* 1 + floor(log2(N)) with N = max(1, size()), empty and cancelling batches
\* included.
C15_LogBound ==
  Len(tries) <=
    1 + Log2(IF Arbor_size(tries) > 1 THEN Arbor_size(tries) ELSE 1)

\* ------------------------------------------------- layers on their own
\* The key-sorted streams given to from_ordered: at most MaxStream items
\* with weights -1, 0 and 1; a stream may repeat a full key or carry a zero
\* weight when it has at most MaxIrregular items.
LayerDepths == {0, 1}

StreamWeights == {-1, 0, 1}

StreamItems(d) ==
  IF d = 0 THEN {<<k, w>> : k \in LeafKeySet, w \in StreamWeights}
  ELSE {<<k, <<v, w>>>> : k \in KeySet, v \in KeySet, w \in StreamWeights}

Regular(b, d) ==
  /\ \A i \in 1 .. Len(b) : Weight(b[i], d) # 0
  /\ \A i \in 1 .. Len(b) - 1 : PathLess(Path(b[i], d), Path(b[i + 1], d))

Streams(d) ==
  UNION {{b \in [1 .. n -> StreamItems(d)] :
            /\ \A i \in 1 .. n - 1 :
                 \/ PathLess(Path(b[i], d), Path(b[i + 1], d))
                 \/ Path(b[i], d) = Path(b[i + 1], d)
            /\ n > MaxIrregular => Regular(b, d)}
         : n \in 0 .. MaxStream}

InitLayer ==
  /\ T \in LayerDepths
  /\ tries = <<>> /\ parts = <<>> /\ appends = 0 /\ pc = "idle"
  /\ NoMerger /\ NoIndex /\ NoCursor /\ NoAdvance /\ NoScan

layerFrame ==
  <<T, tries, parts, appends, pc, mergerVars, indexVars, cursorVars, adv,
    loaded, scanned, sources>>

\* let a = L::from_ordered(s1); let b = L::from_ordered(s2);
Build ==
  /\ pair = <<>>
  /\ \E s1 \in Streams(T) : \E s2 \in Streams(T) :
       pair' = <<from_ordered(T, s1), from_ordered(T, s2)>>
  /\ UNCHANGED <<merged, layerFrame>>

\* a.merge(&b)
Merge ==
  /\ pair # <<>> /\ merged = None
  /\ merged' = Some(merge(pair[1], pair[2]))
  /\ UNCHANGED <<pair, layerFrame>>

NextLayer ==
  \/ Build
  \/ Merge

SpecLayer == InitLayer /\ [][NextLayer]_vars

\* The leaf entries of a layer of depth 0 or 1 as <<full key, weight>>, in
\* storage order, read off its vectors.
LeafOwner(t, j) ==
  CHOOSE i \in 0 .. Len(t.keys) - 1 : RangeStart(t, i) <= j /\ j < RangeEnd(t, i)

Entries(t) ==
  IF t.d = 0 THEN [j \in 1 .. Len(t.keys) |-> <<<<t.keys[j][1]>>, t.keys[j][2]>>]
  ELSE [j \in 1 .. Len(t.vals.keys) |->
          <<<<At(t.keys, LeafOwner(t, j - 1))[1], t.vals.keys[j][1]>>,
            t.vals.keys[j][2]>>]

\* The keys of every level strictly increase within each parent group.
StrictKeys(t) ==
  /\ \A i \in 1 .. Len(t.keys) - 1 : t.keys[i][1] < t.keys[i + 1][1]
  /\ t.d = 1 =>
       \A i \in 0 .. Len(t.keys) - 1 :
         \A j \in RangeStart(t, i) + 1 .. RangeEnd(t, i) - 1 :
           t.vals.keys[j][1] < t.vals.keys[j + 1][1]

NoZeroWeight(t) == \A j \in 1 .. Len(Entries(t)) : Entries(t)[j][2] # 0

\* C16 as claimed: a layer built by from_ordered from a key-sorted stream
\* that may repeat a full key, and the result of a merge, has strictly
\* increasing keys at every level within each parent group (equal leaf keys
\* never coexist).
C16_StrictKeys ==
  /\ \A i \in 1 .. Len(pair) : StrictKeys(pair[i])
  /\ merged # None => StrictKeys(merged[1])

\* C17 as claimed: the leaf entries of the result of a merge all have a
\* non-zero weight, whatever tuples the merged layers were built from.
C17_NoZeroAfterMerge ==
  merged # None => NoZeroWeight(merged[1])

\* The reference result of merging a and b: per full key the sum of the
\* weights of both layers, the full keys with a non-zero sum in sorted order.
WeightIn(t, p) ==
  IF \E j \in 1 .. Len(Entries(t)) : Entries(t)[j][1] = p
  THEN Entries(t)[CHOOSE j \in 1 .. Len(Entries(t)) : Entries(t)[j][1] = p][2]
  ELSE 0

LayerPaths(d) ==
  IF d = 0 THEN {<<k>> : k \in LeafKeySet} ELSE {<<k, v>> : k, v \in KeySet}

Surviving(a, b) ==
  {p \in LayerPaths(a.d) : WeightIn(a, p) + WeightIn(b, p) # 0}

RECURSIVE SortedPaths(_)
SortedPaths(S) ==
  IF S = {} THEN <<>>
  ELSE LET m == CHOOSE x \in S : \A y \in S \ {x} : PathLess(x, y)
       IN  <<m>> \o SortedPaths(S \ {m})

\* The layer that holds exactly the reference result: the leaf vector in
\* full-key order and, for a TrieLayer, one key per top-level key with a
\* surviving tuple, its offset the number of surviving tuples up to it.
ReferenceLeaf(a, b, ps) ==
  [d |-> 0, ok |-> TRUE,
   keys |-> [j \in 1 .. Len(ps) |->
               <<ps[j][Len(ps[j])], WeightIn(a, ps[j]) + WeightIn(b, ps[j])>>]]

ReferenceLayer(a, b) ==
  LET ps == SortedPaths(Surviving(a, b))
      tops == SortedSeq({ps[j][1] : j \in 1 .. Len(ps)})
  IN  IF a.d = 0 THEN ReferenceLeaf(a, b, ps)
      ELSE [d |-> 1, ok |-> TRUE,
            keys |-> [i \in 1 .. Len(tops) |->
                        <<tops[i],
                          Cardinality({j \in 1 .. Len(ps) : ps[j][1] <= tops[i]})>>],
            vals |-> ReferenceLeaf(a, b, ps)]

MergeInput(t) == StrictKeys(t) /\ NoZeroWeight(t)

\* C18: for two layers with strictly increasing keys at every level and no
\* zero weight, merge(a, b) is the layer of the reference result: the sorted
\* union of their tuples with the weights of equal full keys summed, zero
\* sums dropped, and a top-level key present iff a tuple below it survives.
C18_MergeReference ==
  (merged # None /\ MergeInput(pair[1]) /\ MergeInput(pair[2])) =>
    merged[1] = ReferenceLayer(pair[1], pair[2])

\* C18 witness: a merge of two-level layers of three tuples each in which a
\* full key cancels, another is summed, and a top-level key disappears.
C18_Witness ==
  /\ merged # None /\ T = 1
  /\ MergeInput(pair[1]) /\ MergeInput(pair[2])
  /\ Len(Entries(pair[1])) = 3 /\ Len(Entries(pair[2])) = 3
  /\ \E p \in LayerPaths(1) :
       /\ WeightIn(pair[1], p) # 0 /\ WeightIn(pair[2], p) # 0
       /\ WeightIn(merged[1], p) = 0
  /\ \E p \in LayerPaths(1) :
       /\ WeightIn(pair[1], p) # 0 /\ WeightIn(pair[2], p) # 0
       /\ WeightIn(merged[1], p) # 0
  /\ \E k \in TopKeys(pair[1]) \cap TopKeys(pair[2]) : k \notin TopKeys(merged[1])

\* ------------------------------------- CursorMerger::from over sources
MaxMergeKey == 4
MaxSources == 3

MergeKeySet(d) == IF d = 0 THEN 1 .. MaxMergeKey ELSE KeySet

SourcePaths(d) == [1 .. d + 1 -> MergeKeySet(d)]

SourceItem(p, d) == IF d = 0 THEN <<p[1], 1>> ELSE <<p[1], <<p[2], 1>>>>

\* The stream of the full keys S, in increasing order, each of weight 1.
SourceStream(S, d) ==
  [i \in 1 .. Cardinality(S) |-> SourceItem(SortedPaths(S)[i], d)]

\* The layers a source cursor runs over: built by from_ordered from a stream
\* of strictly increasing full keys.
SourceLayers(d) == {from_ordered(d, SourceStream(S, d)) : S \in SUBSET SourcePaths(d)}

InitMerger ==
  /\ T \in LayerDepths
  /\ \E n \in 1 .. MaxSources : sources \in [1 .. n -> SourceLayers(T)]
  /\ tries = <<>> /\ parts = <<>> /\ appends = 0
  /\ pc = "idle"
  /\ NoMerger /\ NoIndex /\ NoCursor /\ NoAdvance
  /\ loaded = {} /\ scanned = None /\ pair = <<>> /\ merged = None

SourceCursors == [i \in 1 .. Len(sources) |-> cursor(sources[i], 0, keys_cnt(sources[i]))]

\* let mut merger = CursorMerger::from(sources.iter().map(|x| x.cursor(0, x.keys())));
MergerFrom ==
  /\ pc = "idle"
  /\ pc' = "scan"
  /\ LET m == CursorMerger_from(SourceCursors)
     IN  started' = m.started /\ cursors' = m.cursors
  /\ UNCHANGED <<result, out, nones, arborVars, indexVars, cursorVars, adv, scanVars>>

NextMerger ==
  \/ MergerFrom
  \/ MergerNext
  \/ MergerDrop

SpecMerger == InitMerger /\ [][NextMerger]_vars

\* ----------------------------------- CursorMerger: what the claims use
StrictSource(t) == \A i \in 1 .. Len(t.keys) - 1 : t.keys[i][1] < t.keys[i + 1][1]

SourceKeys == UNION {TopKeys(sources[i]) : i \in 1 .. Len(sources)}

\* The number of entries of group g whose cursor runs over layer t.
EntriesOver(g, t) ==
  Cardinality({j \in 1 .. Len(g) :
                 [g[j][2] EXCEPT !.index = 0] = cursor(t, 0, keys_cnt(t))})

\* The number of sources that are layer t and hold key k.
SourcesHolding(t, k) ==
  Cardinality({i \in 1 .. Len(sources) : sources[i] = t /\ k \in TopKeys(t)})

\* The entry's front is the item its source holds just before the cursor.
Live(entry) ==
  /\ entry[2].index >= 1
  /\ Cursor_next([entry[2] EXCEPT !.index = @ - 1]).ret = Some(entry[1])

\* C19: for a merger built by from over sources of strictly increasing keys,
\* the group keys returned by next strictly increase; all entries of a group
\* carry the group key; the group has exactly one entry for each source that
\* holds the key; and when next has returned None every key of every source
\* has been returned (in exactly one group, the keys being strictly
\* increasing).
C19_GroupExposure ==
  (pc = "scan" /\ \A i \in 1 .. Len(sources) : StrictSource(sources[i])) =>
    /\ \A i \in 1 .. Len(out) - 1 : out[i] < out[i + 1]
    /\ Range(out) \subseteq SourceKeys
    /\ result # None =>
         /\ \A j \in 1 .. Len(result[1]) :
              FrontKey(result[1][j]) = Last(out) /\ Live(result[1][j])
         /\ \A i \in 1 .. Len(sources) :
              EntriesOver(result[1], sources[i]) = SourcesHolding(sources[i], Last(out))
         /\ Len(result[1]) =
              Cardinality({i \in 1 .. Len(sources) : Last(out) \in TopKeys(sources[i])})
    /\ nones > 0 => Range(out) = SourceKeys

\* C19 witness: next has returned a second or later group that holds two or
\* more entries while a non-empty source does not hold the group key.
C19_Witness ==
  /\ pc = "scan" /\ result # None
  /\ Len(out) >= 2 /\ Len(result[1]) >= 2
  /\ \E i \in 1 .. Len(sources) :
       sources[i].keys # <<>> /\ Last(out) \notin TopKeys(sources[i])

SortedByFront(cs) ==
  \A i \in 1 .. Len(cs) - 1 : FrontKey(cs[i]) <= FrontKey(cs[i + 1])

\* The sources that still have a key to give: all non-empty ones before the
\* first group, those with a key at or after the group key afterwards.
Undrained ==
  {i \in 1 .. Len(sources) :
     \E k \in TopKeys(sources[i]) : out = <<>> \/ k >= Last(out)}

\* The length of the prefix that next re-sorts, for the outcome a of the
\* advancing loop.
ResortedPrefix(a) ==
  IF a.cursor > 0
  THEN next_prefix(a.cursors, a.cursor,
                   next_max_key(a.cursors, a.cursor, 1, FrontKey(At(a.cursors, 0))))
  ELSE 0

PrefixSortIsFullSort(a) ==
  /\ next_resort(a.cursors, a.cursor) = sort_by(a.cursors)
  /\ \A i \in ResortedPrefix(a) + 1 .. Len(a.cursors) :
       next_resort(a.cursors, a.cursor)[i] = a.cursors[i]

\* C20: after from and after every next that returned a group, the merger's
\* entries are sorted by front key, every entry holds a front taken from its
\* source, and the entries are exactly the sources not yet drained; after a
\* next that returned None no entry is left.  Whenever next advances the
\* consumed entries, re-sorting the prefix it picks gives the same list as
\* sorting the whole list, and the entries beyond the prefix stay in place.
C20_MergerSorted ==
  pc = "scan" =>
    /\ SortedByFront(cursors)
    /\ \A j \in 1 .. Len(cursors) : Live(cursors[j])
    /\ Len(cursors) = IF nones > 0 THEN 0 ELSE Cardinality(Undrained)
    /\ (started # None /\ next_advance(cursors, 0, started[1]).ok) =>
         PrefixSortIsFullSort(next_advance(cursors, 0, started[1]))

Disordered(a) ==
  /\ a.ok
  /\ a.cursors # sort_by(a.cursors)
  /\ ResortedPrefix(a) > a.cursor
  /\ ResortedPrefix(a) < Len(a.cursors)

\* C20 witness: a group has been consumed and advancing it leaves the list out
\* of order; the prefix to sort reaches past the advanced entries and stops
\* before the end of the list.
C20_Witness ==
  /\ pc = "scan" /\ started # None
  /\ Disordered(next_advance(cursors, 0, started[1]))

\* ------------------------------------------------- the merge driver
MaxDriverStream == 2
MaxDriverLayers == 3

DriverDepths == {1, 2}

\* The key-sorted, non-empty streams a layer of depth d is built from: full
\* keys in non-decreasing order, weights +1 and -1.
DriverStreams(d) ==
  UNION {{b \in [1 .. n -> ItemSetOver(d, KeySet)] :
            \A i \in 1 .. n - 1 :
              \/ PathLess(Path(b[i], d), Path(b[i + 1], d))
              \/ Path(b[i], d) = Path(b[i + 1], d)}
         : n \in 1 .. MaxDriverStream}

InitDriver ==
  /\ T \in DriverDepths
  /\ tries = <<>> /\ parts = <<>> /\ appends = 0
  /\ pc = "idle"
  /\ NoMerger /\ NoIndex /\ NoCursor /\ NoAdvance /\ NoScan

\* let a = L::from_ordered(s1); let b = L::from_ordered(s2);
\* appends counts the layers built so far.
DriverBuild ==
  /\ pair = <<>>
  /\ \E s1 \in DriverStreams(T) : \E s2 \in DriverStreams(T) :
       pair' = <<from_ordered(T, s1), from_ordered(T, s2)>>
  /\ appends' = 2
  /\ UNCHANGED <<T, tries, parts, pc, mergerVars, indexVars, cursorVars, adv,
                 loaded, scanned, merged, sources>>

\* let c = a.merge(&b);
DriverMerge ==
  /\ pair # <<>> /\ merged = None
  /\ merged' = Some(merge(pair[1], pair[2]))
  /\ UNCHANGED <<pair, layerFrame>>

\* The merged layer is merged again with a newly built one-tuple layer, as the newer
\* (first) or the older (second) operand: Arbor::append merges the trie it
\* popped last with the one below it.
DriverRemerge ==
  /\ merged # None /\ merged[1].ok /\ appends < MaxDriverLayers
  /\ \E tuple \in ItemSetOver(T, KeySet) :
       \/ pair' = <<from_ordered(T, <<tuple>>), merged[1]>>
       \/ pair' = <<merged[1], from_ordered(T, <<tuple>>)>>
  /\ merged' = None
  /\ appends' = appends + 1
  /\ UNCHANGED <<T, tries, parts, pc, mergerVars, indexVars, cursorVars, adv,
                 loaded, scanned, sources>>

NextDriver ==
  \/ DriverBuild
  \/ DriverMerge
  \/ DriverRemerge

SpecDriver == InitDriver /\ [][NextDriver]_vars

\* At every level the end offsets strictly increase from 0 up to the number
\* of keys of the layer below.
RECURSIVE EndsAgree(_)
EndsAgree(t) ==
  t.d = 0 \/
    /\ \A i \in 0 .. Len(t.keys) - 1 : RangeStart(t, i) < RangeEnd(t, i)
    /\ keys(t.vals) = IF t.keys = <<>> THEN 0 ELSE Last(t.keys)[2]
    /\ EndsAgree(t.vals)

\* C21: in a merge of two tries built by from_ordered on key-sorted non-empty
\* streams or by earlier merges no assertion of the merge driver fails:
\* extend_trie is not called with lower >= upper at any level, every step is
\* > 0, and self.vals.keys() = self.keys.last().end holds after every
\* extend_trie (ok records the conjunction of these assertions); in the
\* result, at every level, the last end offset is the length of the layer
\* below and no key has an empty range.
C21_DriverAssertions ==
  merged # None => (merged[1].ok /\ EndsAgree(merged[1]))

\* C21 witness: a three-level merge whose one operand is the result of an
\* earlier merge, in which some tuples cancel and three or more remain.
C21_Witness ==
  /\ merged # None /\ T = 2 /\ appends = MaxDriverLayers
  /\ tuples(merged[1]) >= 3
  /\ tuples(merged[1]) < tuples(pair[1]) + tuples(pair[2])

\* ------------------------------------- ArborIndex: the eviction phase
\* The state of the while loop of ArborIndex::append when it is entered with
\* trie on the index as it is now.
AppendEntered(trie) ==
  [st |-> [tries |-> itries, index |-> index, spill |-> spill,
           ok |-> TRUE, evicted |-> 0],
   trie |-> trie]

AppendRound(m) ==
  /\ m.st.ok /\ Len(m.st.tries) > 0
  /\ index_within_2x(Last(m.st.tries)[1], m.trie)

AppendNextRound(m) ==
  append_popped(m.st, m.trie, Last(m.st.tries)[1], Last(m.st.tries)[2],
                append_evict(m.st.index, m.st.spill, Last(m.st.tries)[1], 0))

\* Every top-level key of the trie about to be popped has an occupied entry
\* whose head location is the popped trie, with its link inside the spill.
PoppedHeads(st) ==
  \A i \in 1 .. Len(Last(st.tries)[1].keys) :
    LET key == Last(st.tries)[1].keys[i][1]
    IN  /\ key \in DOMAIN st.index
        /\ st.index[key][1] = Len(st.tries) - 1
        /\ st.index[key][2] = i - 1
        /\ st.index[key][3] # None => st.index[key][3][1] < Len(st.spill)

RECURSIVE EvictionsOccupied(_)
EvictionsOccupied(m) ==
  AppendRound(m) => (PoppedHeads(m.st) /\ EvictionsOccupied(AppendNextRound(m)))

\* The number of tries the append pops.
RECURSIVE Rounds(_)
Rounds(m) == IF AppendRound(m) THEN 1 + Rounds(AppendNextRound(m)) ELSE 0

\* C22: whatever trie (built from an ordered batch, so with strictly
\* increasing top-level keys) is appended next, in every round of the merge
\* loop each top-level key of the popped trie has an occupied entry whose
\* head refers to the popped trie, and the append ends without reaching
\* unreachable!().
C22_EvictionOccupied ==
  pc = "idle" =>
    \A b \in IndexBatches :
      /\ EvictionsOccupied(AppendEntered(from_ordered(1, b)))
      /\ append_merge(AppendEntered(from_ordered(1, b))).st.ok

\* A head of the trie about to be popped has a spill link (linked) or none.
PoppedHeadLinked(st, linked) ==
  \E k \in TopKeys(Last(st.tries)[1]) : (st.index[k][3] # None) = linked

\* C22 witness: after an earlier eviction the index holds two or more tries,
\* and an append now pops two of them: the first popped holds a key whose
\* head has a spill link, the second a key whose head has none.
C22_Witness ==
  /\ pc = "idle" /\ evicted > 0 /\ Len(itries) >= 2
  /\ \E b \in IndexBatches :
       /\ Rounds(AppendEntered(from_ordered(1, b))) >= 2
       /\ PoppedHeadLinked(AppendEntered(from_ordered(1, b)).st, TRUE)
       /\ PoppedHeadLinked(AppendNextRound(AppendEntered(from_ordered(1, b))).st, FALSE)

\* -------------------------------- ArborIndex: chains over three tries
MaxSpillKey == 3
MaxSpillVal == 3
MaxSpillAppends == 4

SpillKeys == 1 .. MaxSpillKey

\* All (key, (value, 1)) with key in K and value in 1 .. w, in order.
BlockBatch(K, w) ==
  [i \in 1 .. Cardinality(K) * w |->
     <<SortedSeq(K)[1 + ((i - 1) \div w)], <<1 + ((i - 1) % w), 1>>>>]

\* The batches given to the index: for a non-empty set of keys, the first
\* w values under each of them.
SpillBatches ==
  {BlockBatch(K, w) : K \in SUBSET SpillKeys \ {{}}, w \in 1 .. MaxSpillVal}

SpillExtendOrdered ==
  /\ pc = "idle" /\ appends < MaxSpillAppends
  /\ \E b \in SpillBatches :
       IndexAppended(ArborIndex_extend_ordered(
                       [tries |-> itries, index |-> index, spill |-> spill], b),
                     b)

NextSpill == SpillExtendOrdered

SpecSpill == InitIndex /\ [][NextSpill]_vars

\* The sum of the spill counts recorded with the first n resident tries.
RECURSIVE SpillCounts(_, _)
SpillCounts(ts, n) == IF n = 0 THEN 0 ELSE ts[n][2] + SpillCounts(ts, n - 1)

\* The spill positions (0-based) of the block of resident trie i (0-based).
BlockOf(i) == SpillCounts(itries, i) .. SpillCounts(itries, i + 1) - 1

\* The entries, heads in the hash map and spill entries, that name trie i
\* and link to spill position s.
Linkers(i, s) ==
  {<<"head", k>> : k \in {x \in DOMAIN index :
                            index[x][1] = i /\ index[x][3] = Some(s)}}
    \cup {<<"spill", q>> : q \in {y \in 0 .. Len(spill) - 1 :
                                    At(spill, y)[1] = i /\ At(spill, y)[3] = Some(s)}}

\* What the merge loop (left at m) and the whole append (giving r) have done
\* to the spill: the loop has released exactly the blocks of the popped
\* tries from the tail, and the new block is pushed behind what is left.
ReleasedLifo(m, r) ==
  /\ m.st.tries = SubSeq(itries, 1, Len(m.st.tries))
  /\ m.st.evicted = Len(spill) - SpillCounts(itries, Len(m.st.tries))
  /\ m.st.spill = SubSeq(spill, 1, SpillCounts(itries, Len(m.st.tries)))
  /\ SubSeq(r.spill, 1, Len(m.st.spill)) = m.st.spill
  /\ Last(r.tries)[2] = Len(r.spill) - Len(m.st.spill)

\* C23: the length of the spill is the sum of the spill counts of the
\* resident tries; the positions of a trie's block, taken in trie order, are
\* exactly the entries pushed for that trie (each is linked from one entry
\* naming the trie and holds an entry of an older trie); and every append
\* releases exactly the blocks of the tries it pops, from the tail, leaves
\* every other spill entry as it was and pushes the new block at the tail.
C23_SpillDiscipline ==
  pc = "idle" =>
    /\ Len(spill) = SpillCounts(itries, Len(itries))
    /\ \A i \in 0 .. Len(itries) - 1 : \A s \in BlockOf(i) :
         /\ Cardinality(Linkers(i, s)) = 1
         /\ At(spill, s)[1] < i
    /\ \A b \in SpillBatches :
         ReleasedLifo(append_merge(AppendEntered(from_ordered(1, b))),
                      ArborIndex_append([tries |-> itries, index |-> index,
                                         spill |-> spill],
                                        from_ordered(1, b)))

\* C23 witness: three resident tries, the second and the third with a
\* non-empty block, left by an append that released a block and kept one.
C23_Witness ==
  /\ pc = "idle" /\ evicted > 0
  /\ Len(itries) = 3 /\ itries[2][2] > 0 /\ itries[3][2] > 0

\* An entry of the chain of key is a valid location of the key.
ValidEntry(e, key) ==
  /\ e[1] < Len(itries)
  /\ e[2] < Len(At(itries, e[1])[1].keys)
  /\ At(At(itries, e[1])[1].keys, e[2])[1] = key
  /\ e[3] # None => e[3][1] < Len(spill)

\* C24: for every key the head entry refers to the newest resident trie that
\* contains the key (there is a head exactly when some trie contains it); the
\* trie indices along the chain strictly decrease; every chain entry names a
\* resident trie, an offset inside its keys at which the key stands, and a
\* link inside the spill, which are the positions get_into indexes when it
\* walks the chain.
C24_ChainEntriesValid ==
  pc = "idle" =>
    \A key \in 1 .. MaxSpillKey + 1 :
      /\ (key \in DOMAIN index) = (Holders(key) # {})
      /\ key \in DOMAIN index =>
           \A i \in Holders(key) : i <= index[key][1]
      /\ \A j \in 1 .. Len(Chain(key)) : ValidEntry(Chain(key)[j], key)
      /\ \A j \in 1 .. Len(Chain(key)) - 1 : Chain(key)[j][1] > Chain(key)[j + 1][1]

\* C24 witness: a key held by three resident tries, at an offset past the
\* first in one of them, while another key is held by the oldest trie only.
C24_Witness ==
  /\ pc = "idle"
  /\ \E key \in SpillKeys :
       /\ Len(Chain(key)) = 3
       /\ \E j \in 1 .. 3 : Chain(key)[j][2] > 0
  /\ \E key \in SpillKeys : Holders(key) = {0}

\* ------------------------------------------ Arbor::append: rule and frame
\* The stack the merge rule prescribes: the new trie is merged with the tail
\* while it has more than half the tail's tuples (twice its tuples exceed
\* the tail's), and is put on the stack at the first tail for which it has
\* not.
RECURSIVE RuleAppend(_, _)
RuleAppend(ts, trie) ==
  IF ts # <<>> /\ 2 * tuples(trie) > tuples(Last(ts))
  THEN RuleAppend(SubSeq(ts, 1, Len(ts) - 1), merge(trie, Last(ts)))
  ELSE Append(ts, trie)

\* r is what append(trie) makes of the resident tries.
RuleAndFrame(trie, r) ==
  /\ r = RuleAppend(tries, trie)
  /\ Len(r) >= 1 /\ Len(r) <= Len(tries) + 1
  /\ SubSeq(r, 1, Len(r) - 1) = SubSeq(tries, 1, Len(r) - 1)
  /\ Len(r) >= 2 => ~(tuples(r[Len(r)]) > tuples(r[Len(r) - 1]) \div 2)
  /\ (tries # <<>> /\ 2 * tuples(trie) <= tuples(Last(tries))) =>
       r = Append(tries, trie)

\* C25: for every trie appended next, append merges the two tail tries
\* exactly while the later has more than half the tuples of the earlier and
\* stops at the first pair for which it has not; the tries below the deepest
\* merged position stay unchanged and in place; and a trie of at most half
\* the tuples of the tail is put behind the old stack without a merge.
C25_MergeRuleAndFrame ==
  pc = "idle" =>
    \A b \in BatchSet(T) :
      RuleAndFrame(from_ordered(T, b), Arbor_append(tries, from_ordered(T, b)))

\* The number of resident tries after batch b is appended now.
LenAfter(b) == Len(Arbor_append(tries, from_ordered(T, b)))

\* C25 witness: two resident tries, and among the next appends one that
\* merges with the tail only and stops, one that merges down to a single
\* trie, and one of a non-empty trie that merges nothing.
C25_Witness ==
  /\ pc = "idle" /\ Len(tries) = 2
  /\ \E b \in BatchSet(T) : LenAfter(b) = 2
  /\ \E b \in BatchSet(T) : LenAfter(b) = 1
  /\ \E b \in BatchSet(T) : b # <<>> /\ LenAfter(b) = 3

\* --------------------------------- ArborIndex: the order get_into leaves
MaxProbeVal == 3
MaxProbeAppends == 3

\* The full keys of a batch: the values lo .. hi under key 1, and all values
\* under each key of F.
ProbePaths(lo, hi, F) ==
  {<<1, v>> : v \in lo .. hi} \cup {<<k, v>> : k \in F, v \in 1 .. MaxProbeVal}

ProbeBatches ==
  {SourceStream(ProbePaths(lo, hi, F), 1) :
     lo \in 1 .. MaxProbeVal, hi \in 0 .. MaxProbeVal, F \in SUBSET (ProbeKeys \ {1})}
    \ {<<>>}

ProbeExtendOrdered ==
  /\ pc = "idle" /\ appends < MaxProbeAppends
  /\ \E b \in ProbeBatches :
       IndexAppended(ArborIndex_extend_ordered(
                       [tries |-> itries, index |-> index, spill |-> spill], b),
                     b)

NextProbe ==
  \/ ProbeExtendOrdered
  \/ MergerNew
  \/ GetInto
  \/ MergerDrop

SpecProbe == InitIndex /\ [][NextProbe]_vars

\* get_into has just returned.
JustProbed == pc = "probe" /\ started = None /\ out = <<>> /\ nones = 0

\* The entries of the key's holders, taken in the order of the sequence of
\* trie positions.
EntriesInOrder(order, key) == [j \in 1 .. Len(order) |-> ProbeEntry(order[j], key)]

Reverse(s) == [j \in 1 .. Len(s) |-> s[Len(s) + 1 - j]]

\* C26 as claimed: after get_into the merger's entries are in the order of
\* the trie index of the trie they come from (ascending, or descending).
C26_SortedByTrieIndex ==
  JustProbed =>
    \/ cursors = EntriesInOrder(SortedSeq(Holders(probe[1])), probe[1])
    \/ cursors = EntriesInOrder(Reverse(SortedSeq(Holders(probe[1]))), probe[1])

\* The holders of the key ordered by the first value under the key, those of
\* equal first value from the newest trie to the oldest.
RECURSIVE FrontOrder(_, _)
FrontOrder(S, key) ==
  IF S = {} THEN <<>>
  ELSE LET first == CHOOSE i \in S : \A j \in S \ {i} :
                      \/ FrontKey(ProbeEntry(i, key)) < FrontKey(ProbeEntry(j, key))
                      \/ /\ FrontKey(ProbeEntry(i, key)) = FrontKey(ProbeEntry(j, key))
                         /\ i > j
       IN  <<first>> \o FrontOrder(S \ {first}, key)

\* C26 amended: after get_into the merger's entries are sorted by their front
\* key, the first value under the probed key in each trie; entries of equal
\* front key stand in chain order, newest trie first.  The order is
\* determined by the index state and the key.
C26_SortedByFrontKey ==
  JustProbed =>
    /\ SortedByFront(cursors)
    /\ cursors = EntriesInOrder(FrontOrder(Holders(probe[1]), probe[1]), probe[1])

\* C26 witness: a probe of a key held by three tries that leaves the entries
\* in an order that neither ascends nor descends in the trie index.
C26_Witness ==
  /\ JustProbed /\ Cardinality(Holders(probe[1])) = 3
  /\ cursors # EntriesInOrder(SortedSeq(Holders(probe[1])), probe[1])
  /\ cursors # EntriesInOrder(Reverse(SortedSeq(Holders(probe[1]))), probe[1])

\* ------------------------------- Arbor and ArborIndex side by side
MaxBothAppends == 3

\* The arbor and the index after the same trie was appended to both.
BothAppended(ts, st, b) ==
  /\ IF AllOk(ts) /\ st.ok
     THEN /\ tries' = ts
          /\ parts' = PartsMerged(Append(parts, PartOf(b, T)), Len(ts))
          /\ itries' = st.tries
          /\ index' = st.index
          /\ spill' = st.spill
          /\ evicted' = st.evicted
          /\ pc' = "idle"
     ELSE /\ pc' = "panic"
          /\ UNCHANGED <<tries, parts, itries, index, spill, evicted>>
  /\ appends' = appends + 1
  /\ loaded' = loaded \cup BatchPaths(b, 1)
  /\ UNCHANGED <<T, probe, mergerVars, cursorVars, adv, scanned, layerVars>>

\* arbor.extend_ordered(batch); index.extend_ordered(batch);
BothExtendOrdered ==
  /\ pc = "idle" /\ appends < MaxBothAppends
  /\ \E b \in IndexBatches :
       BothAppended(Arbor_extend_ordered(tries, b),
                    ArborIndex_extend_ordered(
                      [tries |-> itries, index |-> index, spill |-> spill], b),
                    b)

NextBoth == BothExtendOrdered

SpecBoth == InitIndex /\ [][NextBoth]_vars

\* C27: after each append of the same tuples to both, the resident tries of
\* ArborIndex are as many as those of Arbor and have the same tuple counts,
\* trie by trie.
C27_SameStack ==
  /\ Len(itries) = Len(tries)
  /\ \A i \in 1 .. Len(tries) : i <= Len(itries) =>
       tuples(itries[i][1]) = tuples(tries[i])

\* ------------------------------- the two skip conventions of the leaf
MaxSkipKey == 3
MaxSkipLen == 3

\* Key-sorted leaf streams (keys may repeat), weights +1 and -1.
SkipStreams ==
  UNION {{b \in [1 .. n -> {<<k, w>> : k \in 1 .. MaxSkipKey, w \in Weights}] :
            \A i \in 1 .. n - 1 : b[i][1] <= b[i + 1][1]}
         : n \in 0 .. MaxSkipLen}

InitSkip ==
  /\ T = 0 /\ tries = <<>> /\ parts = <<>> /\ appends = 0 /\ pc = "idle"
  /\ NoMerger /\ NoIndex /\ NoCursor /\ NoAdvance /\ NoScan

\* let a = Vec::from_ordered(s1); let b = Vec::from_ordered(s2);
SkipBuild ==
  /\ pair = <<>>
  /\ \E s1 \in SkipStreams : \E s2 \in SkipStreams :
       pair' = <<from_ordered(0, s1), from_ordered(0, s2)>>
  /\ UNCHANGED <<merged, layerFrame>>

\* Both merges of the ranges [lower1, len) of a and [lower2, len) of b.
SkipMerged(lower1, lower2) ==
  [lower1 |-> lower1, lower2 |-> lower2,
   i32 |-> Vec_extend_merge(new(0), pair[1], lower1, keys(pair[1]),
                            pair[2], lower2, keys(pair[2])),
   isize |-> Vec_isize_extend_merge(new(0), pair[1], lower1, keys(pair[1]),
                                    pair[2], lower2, keys(pair[2]))]

\* result.extend_merge((&a, lower1, a.len()), (&b, lower2, b.len())), with
\* the implementation for (K, i32) and with the one for (K, isize).
SkipMerge ==
  /\ pair # <<>> /\ merged = None
  /\ \E lower1 \in {l \in 0 .. 1 : l <= keys(pair[1])} :
       \E lower2 \in {l \in 0 .. 1 : l <= keys(pair[2])} :
         merged' = Some(SkipMerged(lower1, lower2))
  /\ UNCHANGED <<pair, layerFrame>>

NextSkip ==
  \/ SkipBuild
  \/ SkipMerge

SpecSkip == InitSkip /\ [][NextSkip]_vars

\* The length of the maximal run of keys < key at the start of vec[i .. ].
RunBelow(vec, i, key) == LinearCount(Slice(vec.keys, i, keys(vec)), key, 0)

\* At every position i of vec whose key is below key, both conventions give
\* the length of the run of keys below key, which is at least 1.
StepsAgree(vec, from, key) ==
  \A i \in from .. keys(vec) - 1 :
    At(vec.keys, i)[1] < key =>
      /\ skip_step(vec, i, keys(vec), key) = RunBelow(vec, i, key)
      /\ skip_step_from_lower(vec, i, keys(vec), key) = RunBelow(vec, i, key)
      /\ RunBelow(vec, i, key) >= 1

\* C28: on every pair of key-sorted leaf ranges the merge that skips with
\* 1 + advance(&keys[lower+1..upper], p) and the merge that skips with
\* advance(&keys[lower..upper], p) give the same output, with no assertion
\* failing; and wherever a run is skipped both steps are the length of the
\* maximal run of keys strictly below the other side's key, at least 1.
C28_SkipConventionsAgree ==
  merged # None =>
    /\ merged[1].i32 = merged[1].isize
    /\ merged[1].i32.ok
    /\ \A j \in merged[1].lower2 .. keys(pair[2]) - 1 :
         StepsAgree(pair[1], merged[1].lower1, At(pair[2].keys, j)[1])
    /\ \A i \in merged[1].lower1 .. keys(pair[1]) - 1 :
         StepsAgree(pair[2], merged[1].lower2, At(pair[1].keys, i)[1])

\* C28 witness: a merge in which the second range starts past the first
\* element; it begins by skipping a run of two keys of the first range and
\* then meets equal keys.
C28_Witness ==
  /\ merged # None
  /\ merged[1].lower1 = 0 /\ merged[1].lower2 = 1
  /\ keys(pair[1]) = 3 /\ keys(pair[2]) >= 2
  /\ At(pair[1].keys, 0)[1] < At(pair[2].keys, 1)[1]
  /\ RunBelow(pair[1], 0, At(pair[2].keys, 1)[1]) = 2
  /\ At(pair[1].keys, 2)[1] = At(pair[2].keys, 1)[1]

\* ------------------------------ ArborIndex: the index state of a key
\* Absent: no hash-map entry; Single: a head without spill link; Chained: a
\* head with a spill link.
Class(idx, key) ==
  IF key \notin DOMAIN idx THEN "Absent"
  ELSE IF idx[key][3] = None THEN "Single"
  ELSE "Chained"

\* One move along Absent - Single - Chained, or none.
Neighbour(a, b) ==
  \/ a = b
  \/ {a, b} = {"Absent", "Single"}
  \/ {a, b} = {"Single", "Chained"}

\* One update of the index for key: the key moves to a neighbouring state or
\* stays, and no other key changes its state.
StepOk(idx, idx2, key) ==
  /\ Neighbour(Class(idx, key), Class(idx2, key))
  /\ \A k \in (DOMAIN idx \cup DOMAIN idx2) \ {key} : Class(idx, k) = Class(idx2, k)

\* The trie reduced to its key at position i: the eviction loop run on it
\* is one round of the loop over other.keys.
OneKey(other, i) == [other EXCEPT !.keys = <<At(@, i)>>]

RECURSIVE EvictStepsOk(_, _, _, _)
EvictStepChecked(idx, one, sp, other, i) ==
  /\ one.ok
  /\ StepOk(idx, one.index, At(other.keys, i)[1])
  /\ EvictStepsOk(one.index, sp, other, i + 1)

EvictStepsOk(idx, sp, other, i) ==
  i >= Len(other.keys)
    \/ EvictStepChecked(idx, append_evict(idx, sp, OneKey(other, i), 0), sp, other, i)

\* The insertion loop run on the keys up to position pos, from pos, is one
\* round of the loop over trie.keys.
RECURSIVE InsertStepsOk(_, _, _, _)
InsertStepChecked(o, o2, trie, len, pos) ==
  /\ StepOk(o.index, o2.index, At(trie.keys, pos)[1])
  /\ InsertStepsOk(o2, trie, len, pos + 1)

InsertStepsOk(o, trie, len, pos) ==
  pos >= Len(trie.keys)
    \/ InsertStepChecked(o, append_insert(o, [trie EXCEPT !.keys = SubSeq(@, 1, pos + 1)],
                                          len, pos),
                         trie, len, pos)

\* Every update of the index made by the append that has entered its while
\* loop as m.
RECURSIVE AppendStepsOk(_)
AppendStepsOk(m) ==
  IF AppendRound(m)
  THEN /\ EvictStepsOk(m.st.index, m.st.spill, Last(m.st.tries)[1], 0)
       /\ AppendStepsOk(AppendNextRound(m))
  ELSE InsertStepsOk([index |-> m.st.index, spill |-> m.st.spill],
                     m.trie, Len(m.st.tries), 0)

\* C29 as claimed: no step of the program takes a key from Absent directly
\* to Chained or from Chained directly to Absent, and only an append changes
\* the state of a key.
C29_NoSkippedState ==
  [][\A key \in KeySet :
       /\ Class(index, key) # Class(index', key) => appends' = appends + 1
       /\ ~(Class(index, key) = "Absent" /\ Class(index', key) = "Chained")
       /\ ~(Class(index, key) = "Chained" /\ Class(index', key) = "Absent")]_vars

\* C29 amended: only an append changes the state of a key (cursor, size and
\* get_into do not); every single update the append makes to the index, one
\* key of the popped trie in the eviction phase or one key of the new trie
\* in the insertion phase, moves that key between neighbouring states of
\* Absent - Single - Chained and changes no other key; and no append takes a
\* key from Absent to Chained.  (A whole append can take a key from Chained
\* to Absent, through Single, when it pops every trie holding the key and
\* the key's tuples cancel in the merge.)
C29_KeyStateMachine ==
  [][/\ \A key \in KeySet :
          /\ Class(index, key) # Class(index', key) => appends' = appends + 1
          /\ ~(Class(index, key) = "Absent" /\ Class(index', key) = "Chained")
     /\ pc = "idle" =>
          \A b \in IndexBatches : AppendStepsOk(AppendEntered(from_ordered(1, b)))]_vars

\* The state of key after batch b is appended now.
ClassAfter(b, key) ==
  Class(ArborIndex_extend_ordered([tries |-> itries, index |-> index,
                                   spill |-> spill], b).index, key)

\* C29 witness: an append that can be made now takes a Chained key to
\* Absent, and another one takes a Single key to Chained.
C29_Witness ==
  /\ pc = "idle" /\ appends < MaxIndexAppends
  /\ \E b \in IndexBatches : \E key \in KeySet :
       Class(index, key) = "Chained" /\ ClassAfter(b, key) = "Absent"
  /\ \E b \in IndexBatches : \E key \in KeySet :
       Class(index, key) = "Single" /\ ClassAfter(b, key) = "Chained"

\* ------------------------------------------- CursorMerger: a traversal
\* let mut merger = CursorMerger::from(..); while let Some(group) =
\* merger.next() { .. }: traversal is driven by the caller, who holding a
\* merger either calls next again or stops by dropping it.  No operation
\* blocks, so one of the two is eventually done.
SpecTraversal ==
  InitMerger /\ [][NextMerger]_vars /\ WF_vars(MergerDrop \/ MergerNext)

\* The number of elements of all sources.
RECURSIVE TotalElements(_)
TotalElements(i) ==
  IF i > Len(sources) THEN 0 ELSE keys_cnt(sources[i]) + TotalElements(i + 1)

CursorLength(c) == IF c.d = 0 THEN Len(c.slice) ELSE Len(c.keys)

\* The number of elements the cursors of cs have not yet given.
RECURSIVE Unpulled(_, _)
Unpulled(cs, j) ==
  IF j > Len(cs) THEN 0
  ELSE CursorLength(cs[j][2]) - cs[j][2].index + Unpulled(cs, j + 1)

\* The cursors after each of the first n entries of cs has given exactly one
\* more element (an entry that has none left is gone) and the others none.
RECURSIVE OneFromEach(_, _, _)
OneFromEach(cs, n, j) ==
  IF j > Len(cs) THEN <<>>
  ELSE IF j > n THEN <<cs[j][2]>> \o OneFromEach(cs, n, j + 1)
  ELSE IF cs[j][2].index < CursorLength(cs[j][2])
  THEN <<[cs[j][2] EXCEPT !.index = @ + 1]>> \o OneFromEach(cs, n, j + 1)
  ELSE OneFromEach(cs, n, j + 1)

CursorsOf(cs) == [j \in 1 .. Len(cs) |-> cs[j][2]]

SameBag(s, t) ==
  /\ Len(s) = Len(t)
  /\ \A i \in 1 .. Len(s) :
       Cardinality({j \in 1 .. Len(s) : s[j] = s[i]})
         = Cardinality({j \in 1 .. Len(t) : t[j] = s[i]})

Exposed == IF started = None THEN 0 ELSE started[1]

\* C30: a traversal of a merger built by from over finite sources that is
\* not ended by dropping the merger comes to a call of next that returns
\* None (in particular no call panics or repeats before that); every call
\* of next that returns a group has
\* taken exactly one element from the source of each entry of the group
\* exposed before (none on the first call), and none from any other source,
\* and every entry it keeps holds the last element its source gave; the
\* number of groups returned plus the number of elements not yet taken from
\* the sources is at most the number of elements of the sources.
C30_TraversalTerminates ==
  /\ [][(pc = "scan" /\ Len(out') = Len(out) + 1) =>
          /\ SameBag(CursorsOf(cursors'), OneFromEach(cursors, Exposed, 1))
          /\ \A j \in 1 .. Len(cursors') : Live(cursors'[j])]_vars
  /\ [](pc = "scan" => Len(out) + Unpulled(cursors, 1) <= TotalElements(1))
  /\ (pc = "scan") ~> (nones > 0 \/ pc = "idle")

\* C30 witness: next has returned None after three or more groups, over
\* three sources whose groups shared elements.
C30_Witness ==
  /\ pc = "scan" /\ nones > 0
  /\ Len(sources) = MaxSources
  /\ Len(out) >= 3 /\ Len(out) < TotalElements(1)

\* ------------------------------------------- merge: the order of sides
\* C31: for two layers a and b with strictly increasing keys at every level,
\* a.merge(&b) and b.merge(&a) are the same layer, vector by vector (keys,
\* end offsets, leaf keys and weights); and the trie Arbor::append leaves
\* when it merges b, appended after a, which passes b first to extend_merge,
\* is the one a.merge(&b) gives.
C31_MergeCommutes ==
  (merged # None /\ StrictKeys(pair[1]) /\ StrictKeys(pair[2])) =>
    /\ merge(pair[2], pair[1]) = merged[1]
    /\ within_2x(pair[2], pair[1]) =>
         Arbor_append(<<pair[1]>>, pair[2]) = <<merged[1]>>

\* C31 witness: two different two-level layers sharing a top-level key, with
\* a tuple that cancels and tuples that survive on both sides, have been
\* merged, and the arbor would merge them too.
C31_Witness ==
  /\ merged # None /\ StrictKeys(pair[1]) /\ StrictKeys(pair[2])
  /\ T = 1 /\ pair[1] # pair[2]
  /\ TopKeys(pair[1]) \cap TopKeys(pair[2]) # {}
  /\ tuples(merged[1]) >= 2
  /\ tuples(merged[1]) < tuples(pair[1]) + tuples(pair[2])
  /\ within_2x(pair[2], pair[1])

\* ------------------------------------------- cursors: position and size
\* The cursor's index is within its range, and size() is the number of
\* items repeated calls of next still yield.
CursorInBounds(c) ==
  /\ c.index \in 0 .. CursorLength(c)
  /\ Cursor_size(c) = CursorLength(c) - c.index
  /\ Cursor_size(c) = Len(Remaining(c))

\* What one call has done to the cursor: a next that returns an item lowers
\* size() by one, a next on an exhausted cursor returns None and leaves the
\* cursor as it was, and so does peek, which never changes the cursor.
CursorCallOk ==
  /\ (item'.op = "next" /\ item'.ret # None) =>
       Cursor_size(cur') = Cursor_size(cur) - 1
  /\ (item'.op = "next" /\ Cursor_size(cur) = 0) =>
       (item'.ret = None /\ cur' = cur)
  /\ item'.op = "peek" =>
       (cur' = cur /\ (Cursor_size(cur) = 0 => item'.ret = None))
  /\ item'.op = "seek" =>
       (cur'.index >= cur.index /\ [cur' EXCEPT !.index = cur.index] = cur)

\* C32: for a SliceCursor or TrieCursor under any sequence of next, seek and
\* peek calls (inner cursors handed out by next included), index stays
\* within [0, len], size() = len - index is the number of items still to be
\* yielded, each successful next lowers size() by exactly one, and next and
\* peek on an exhausted cursor return None and leave the cursor unchanged.
C32_CursorPositionBound ==
  /\ [](CursorInBounds(cur))
  /\ [][CursorCallOk]_vars

\* C32 witness: next has returned None on a cursor of two or more items over
\* the keys of a trie layer, which now stands at the end of its range.
C32_Witness ==
  /\ item.op = "next" /\ item.ret = None
  /\ cur.d >= 1
  /\ CursorLength(cur) >= 2 /\ cur.index = CursorLength(cur)
  /\ Cursor_size(cur) = 0
====
